---- MODULE Spec2Model ----
(***************************************************************************)
(* A model of claybrick, a PDF reader and writer.                          *)
(*                                                                         *)
(* Bytes are the integers 0..255 and a byte slice (nom's Span) is a        *)
(* sequence of bytes.  A parser is an operator from the slice to a record  *)
(* [ok |-> TRUE, val |-> value, rest |-> remaining slice] or, on failure,  *)
(* [ok |-> FALSE, err |-> error kind]; an operation that aborts the        *)
(* process yields [ok |-> FALSE, err |-> "panic"].                         *)
(*                                                                         *)
(* Every operation is checked under a specification of its own: Init       *)
(* draws the operation's input from a bounded set, the actions apply the   *)
(* operation as the code computes it.                                      *)
(***************************************************************************)
EXTENDS Integers, Sequences, FiniteSets, TLC

VARIABLES
    pc,         \* the position of the running operation
    input,      \* the input handed to the operation
    encoded,    \* the bytes an encoder wrote
    result,     \* what the operation returned
    offset,     \* document assembler: offset of the revision to read next
    sections,   \* document assembler: RawPdf.sections, newest first
    offsets     \* document assembler: the offsets of the revisions read

vars == <<pc, input, encoded, result, offset, sections, offsets>>

asmVars == <<offset, sections, offsets>>

None == [some |-> FALSE]

Some(v) == [some |-> TRUE, v |-> v]

----------------------------------------------------------------------------
(* Bounds of the model.                                                    *)

\* longest literal-string body drawn for string_object
MaxStrLen == 4

\* longest name body drawn for name_object
MaxNameLen == 4

\* The largest /Length of a stream.
MaxStreamLen == 2

\* The longest array of the round trip.
MaxArrayLen == 2

\* The byte offsets of the files of the revision loop are 0..MaxOffset.
MaxOffset == 2

\* The number of bytes that follow a token in the inputs of the token parsers.
MaxTailLen == 2

\* The subsections of a cross-reference table and the entries of one.
MaxSubsections == 2

MaxCount == 2

\* The records of the data of a cross-reference stream.
MaxRecords == 2

\* The numbered objects in an object stream.
MaxMembers == 2

\* The bytes of the data of a filtered stream and the names under /Filter.
MaxDataLen == 4

MaxFilters == 2

\* The bytes of the input of a search from the end, and its limit.
MaxSearchLen == 4

MaxLimit == 4

\* The greatest object number of a written section.
MaxObjectNumber == 3

\* The digits of a hexadecimal string.
MaxHexDigits == 3

\* The elements of a /W array.
MaxWLen == 4

----------------------------------------------------------------------------
(* Bytes and slices.                                                       *)

\* b'('
LP == 40

\* b')'
RP == 41

\* b'\\'
BSL == 92

\* b' '
SP == 32

\* b'\n'
LF == 10

\* b'\r'
CR == 13

\* b'\t'
TAB == 9

\* form feed
FF == 12

\* b'#'
HASH == 35

\* b'/'
SOL == 47

\* b'<'
LT == 60

\* b'>'
GT == 62

Drop(s, n) == IF n >= Len(s) THEN <<>> ELSE SubSeq(s, n + 1, Len(s))

Take(s, n) == IF n <= 0 THEN <<>> ELSE SubSeq(s, 1, n)

StartsWith(s, t) == Len(s) >= Len(t) /\ SubSeq(s, 1, Len(t)) = t

RECURSIVE SeqsUpTo(_, _)
\* all sequences over alphabet A of length at most n
SeqsUpTo(A, n) ==
    IF n = 0 THEN {<<>>}
    ELSE LET S == SeqsUpTo(A, n - 1)
         IN  S \cup {Append(s, a) : s \in {x \in S : Len(x) = n - 1}, a \in A}

Ok(v, r) == [ok |-> TRUE, val |-> v, rest |-> r]

Err(k) == [ok |-> FALSE, err |-> k]

\* nom's character::complete::multispace0 accepts space, tab, CR and LF
IsMultispace(c) == c \in {SP, TAB, CR, LF}

\* u8::is_ascii_whitespace: space, tab, LF, form feed and CR
IsAsciiWhitespace(c) == c \in {SP, TAB, LF, FF, CR}

RECURSIVE multispace0(_)
\* the slice after its leading run of multispace bytes
multispace0(s) ==
    IF s # <<>> /\ IsMultispace(Head(s)) THEN multispace0(Tail(s)) ELSE s

is_delimiter(chr) == chr \in {40, 41, 60, 62, 91, 93, 123, 125, 47, 37}

is_regular(chr) == ~is_delimiter(chr) /\ ~IsAsciiWhitespace(chr)

\* bytes::complete::tag
tag(t, s) == IF StartsWith(s, t) THEN Ok(t, Drop(s, Len(t))) ELSE Err("Nom")

\* A variant that consumes the whitespace and asks for nothing.
consume_whitespace_only(input0) == Ok(<<>>, multispace0(input0))

require_termination(input0) ==
    LET remainder == multispace0(input0)
    IN  IF Len(remainder) = Len(input0) /\ input0 # <<>>
        THEN IF is_delimiter(Head(remainder)) THEN Ok(<<>>, remainder) ELSE Err("Nom")
        ELSE Ok(<<>>, remainder)

hex_char_to_nibble(c) ==
    IF c \in 97..102 THEN Some(c - 97 + 10)
    ELSE IF c \in 65..70 THEN Some(c - 65 + 10)
    ELSE IF c \in 48..57 THEN Some(c - 48)
    ELSE None

----------------------------------------------------------------------------
(* Literal strings: parse/object.rs, string_object.                        *)

RECURSIVE escaped(_, _)
\* nom's bytes::complete::escaped(none_of("\\()"), '\\', anychar) after k
\* bytes of s were consumed: the number of bytes it recognises, or an error
escaped(s, k) ==
    IF k >= Len(s) THEN [ok |-> TRUE, n |-> Len(s)]
    ELSE LET c == s[k + 1]
         IN  IF c \notin {BSL, LP, RP} THEN escaped(s, k + 1)
             ELSE IF c = BSL
                  THEN IF k + 1 >= Len(s) THEN [ok |-> FALSE, n |-> 0]
                       ELSE escaped(s, k + 2)
                  ELSE IF k = 0 THEN [ok |-> FALSE, n |-> 0]
                       ELSE [ok |-> TRUE, n |-> k]

RECURSIVE consume_until_parenthesis_no_escape(_)
\* mutant: the backslash is an ordinary byte, so an escaped parenthesis counts
consume_until_parenthesis_no_escape(s) ==
    IF s # <<>> /\ Head(s) \notin {LP, RP}
    THEN consume_until_parenthesis_no_escape(Tail(s)) ELSE s

consume_until_parenthesis(s) ==
    LET r == escaped(s, 0) IN IF r.ok THEN Drop(s, r.n) ELSE s

RECURSIVE string_content_loop(_, _)
\* the loop of consume_string_content with the depth counter open_parathesis
string_content_loop(remainder0, open_parathesis) ==
    LET remainder == consume_until_parenthesis(remainder0)
    IN  IF remainder # <<>> /\ Head(remainder) \in {LP, RP}
        THEN LET open == open_parathesis + (IF Head(remainder) = RP THEN -1 ELSE 1)
             IN  IF open >= 0 THEN string_content_loop(Tail(remainder), open)
                 ELSE remainder
        ELSE remainder

consume_string_content(s) == string_content_loop(s, 0)

string_object(s) ==
    IF s = <<>> \/ Head(s) # LP THEN Err("Nom")
    ELSE LET body == Tail(s)
             after == consume_string_content(body)
             content == Take(body, Len(body) - Len(after))
         IN  IF after = <<>> \/ Head(after) # RP THEN Err("Nom")
             ELSE Ok([t |-> "String", str |-> content], multispace0(Tail(after)))

----------------------------------------------------------------------------
(* Names: parse/object.rs, name_object.                                    *)

RECURSIVE take_while_regular(_)
\* bytes::complete::take_while(is_regular): the length of the leading run
take_while_regular(s) ==
    IF s # <<>> /\ is_regular(Head(s)) THEN 1 + take_while_regular(Tail(s)) ELSE 0

RECURSIVE name_decode(_, _, _)
\* the while loop of name_object over the run `name` from index i (0-based),
\* with the bytes pushed so far in out
name_decode(name, i, out) ==
    IF ~(i < Len(name)) THEN Some(out)
    ELSE IF name[i + 1] = HASH
         THEN IF i + 2 >= Len(name) THEN None       \* name.get(i + 1..=i + 2)
              ELSE LET hi == hex_char_to_nibble(name[i + 2])
                       lo == hex_char_to_nibble(name[i + 3])
                   IN  IF hi.some /\ lo.some
                       THEN name_decode(name, i + 3, Append(out, (hi.v * 16 + lo.v) % 256))
                       ELSE None
         ELSE name_decode(name, i + 1, Append(out, name[i + 1]))

name_object(s) ==
    IF s = <<>> \/ Head(s) # SOL THEN Err("Nom")
    ELSE LET n == take_while_regular(Tail(s))
             name == Take(Tail(s), n)
             term == require_termination(Drop(Tail(s), n))
         IN  IF ~term.ok THEN term
             ELSE LET out == name_decode(name, 0, <<>>)
                  IN  IF out.some THEN Ok(out.v, term.rest) ELSE Err("InvalidName")

(***************************************************************************)
(* Numbers, booleans, null, hex strings and comments: parse/object.rs and  *)
(* parse.rs.                                                               *)
(***************************************************************************)
\* The keywords of the grammar as byte slices.
TRUE_OBJECT == <<116, 114, 117, 101>>

FALSE_OBJECT == <<102, 97, 108, 115, 101>>

NULL_OBJECT == <<110, 117, 108, 108>>

KW_OBJ == <<111, 98, 106>>

KW_ENDOBJ == <<101, 110, 100, 111, 98, 106>>

KW_STREAM == <<115, 116, 114, 101, 97, 109>>

KW_ENDSTREAM == <<101, 110, 100, 115, 116, 114, 101, 97, 109>>

K_LENGTH == <<76, 101, 110, 103, 116, 104>>

RECURSIVE to_string(_)
\* Rust's to_string of an integer: decimal digits, a leading '-' if negative.
to_string(n) ==
    IF n < 0 THEN <<45>> \o to_string(0 - n)
    ELSE IF n < 10 THEN <<48 + n>>
    ELSE to_string(n \div 10) \o <<48 + (n % 10)>>

\* A parser result that an alternative does not recover from: a success or
\* an abort of the process.
Final(r) == r.ok \/ r.err = "panic"

IsDigit(c) == c \in 48..57

RECURSIVE digit0(_)
\* The number of leading decimal digits.
digit0(s) == IF s # <<>> /\ IsDigit(Head(s)) THEN 1 + digit0(Tail(s)) ELSE 0

RECURSIVE DecValue(_)
DecValue(ds) ==
    IF ds = <<>> THEN 0
    ELSE 10 * DecValue(SubSeq(ds, 1, Len(ds) - 1)) + (ds[Len(ds)] - 48)

RECURSIVE StripLeadingZeros(_)
StripLeadingZeros(ds) ==
    IF ds # <<>> /\ Head(ds) = 48 THEN StripLeadingZeros(Tail(ds)) ELSE ds

RECURSIVE LexLeq(_, _)
\* a <= b for digit strings of the same length.
LexLeq(a, b) ==
    a = <<>> \/ Head(a) < Head(b) \/ (Head(a) = Head(b) /\ LexLeq(Tail(a), Tail(b)))

\* The digit string ds, a decimal number, is at most the digit string max:
\* the overflow check of the checked arithmetic of the integer parsers.
FitsIn(ds, max) ==
    LET z == StripLeadingZeros(ds)
    IN  Len(z) < Len(max) \/ (Len(z) = Len(max) /\ LexLeq(z, max))

\* u32::MAX, i32::MAX and the magnitude of i32::MIN in decimal digits.
U32_MAX == <<52, 50, 57, 52, 57, 54, 55, 50, 57, 53>>

I32_MAX == <<50, 49, 52, 55, 52, 56, 51, 54, 52, 55>>

I32_MIN == <<50, 49, 52, 55, 52, 56, 51, 54, 52, 56>>

\* character::complete::u32: decimal digits, an error on overflow.
parse_u32(s) ==
    LET n == digit0(s)
    IN  IF n = 0 \/ ~FitsIn(Take(s, n), U32_MAX) THEN Err("Nom")
        ELSE Ok(DecValue(Take(s, n)), Drop(s, n))

\* character::complete::i32: an optional sign, decimal digits, an error on
\* overflow.
parse_i32(s) ==
    LET signed == s # <<>> /\ Head(s) \in {43, 45}
        neg == s # <<>> /\ Head(s) = 45
        ds == IF signed THEN Tail(s) ELSE s
        n == digit0(ds)
        v == IF neg THEN 0 - DecValue(Take(ds, n)) ELSE DecValue(Take(ds, n))
    IN  IF n = 0 \/ ~FitsIn(Take(ds, n), IF neg THEN I32_MIN ELSE I32_MAX) THEN Err("Nom")
        ELSE Ok(v, Drop(ds, n))

RECURSIVE StripZeros(_)
StripZeros(ds) ==
    IF ds # <<>> /\ ds[Len(ds)] = 48 THEN StripZeros(SubSeq(ds, 1, Len(ds) - 1)) ELSE ds

\* number::complete::float on the inputs without an exponent: an optional
\* sign, then digits with an optional fraction, or a fraction alone.  The
\* value is kept as the pair <<signed digits, number of fraction digits>>,
\* the digits as a number up to 2^31 - 1 and as they are written beyond.
parse_float(s) ==
    LET signed == s # <<>> /\ Head(s) \in {43, 45}
        neg == s # <<>> /\ Head(s) = 45
        ds == IF signed THEN Tail(s) ELSE s
        n == digit0(ds)
        dot == Drop(ds, n) # <<>> /\ Head(Drop(ds, n)) = 46
        m == IF dot THEN digit0(Drop(ds, n + 1)) ELSE 0
        frac == StripZeros(SubSeq(ds, n + 2, n + 1 + m))
        mag == DecValue(Take(ds, n) \o frac)
        used == IF dot THEN n + 1 + m ELSE n
    IN  IF n = 0 /\ (~dot \/ m = 0) THEN Err("Nom")
        ELSE IF ~FitsIn(Take(ds, n) \o frac, I32_MAX)
             THEN Ok([t |-> "Float",
                      float |-> <<IF neg THEN <<45>> \o Take(ds, n) \o frac
                                  ELSE Take(ds, n) \o frac, Len(frac)>>],
                     Drop(ds, used))
        ELSE Ok([t |-> "Float", float |-> <<IF neg THEN 0 - mag ELSE mag, Len(frac)>>],
                Drop(ds, used))

number_object(s) ==
    LET i == parse_i32(s)
        it == IF i.ok THEN require_termination(i.rest) ELSE i
        f == parse_float(s)
        ft == IF f.ok THEN require_termination(f.rest) ELSE f
    IN  IF it.ok THEN Ok([t |-> "Integer", int |-> i.val], it.rest)
        ELSE IF ft.ok THEN Ok(f.val, ft.rest)
        ELSE Err("Nom")

bool_object(s) ==
    LET r == IF StartsWith(s, TRUE_OBJECT) THEN Ok(TRUE, Drop(s, 4))
             ELSE IF StartsWith(s, FALSE_OBJECT) THEN Ok(FALSE, Drop(s, 5))
             ELSE Err("Nom")
        term == IF r.ok THEN require_termination(r.rest) ELSE r
    IN  IF term.ok THEN Ok([t |-> "Bool", bool |-> r.val], term.rest) ELSE Err("Nom")

null_object(s) ==
    LET r == tag(NULL_OBJECT, s)
        term == IF r.ok THEN require_termination(r.rest) ELSE r
    IN  IF term.ok THEN Ok([t |-> "Null"], term.rest) ELSE Err("Nom")

IsHexDigit(c) == c \in (48..57) \cup (65..70) \cup (97..102)

RECURSIVE hex_digit0(_)
hex_digit0(s) == IF s # <<>> /\ IsHexDigit(Head(s)) THEN 1 + hex_digit0(Tail(s)) ELSE 0

RECURSIVE hex_decode(_)
\* Two digits make a byte; a last single digit is pushed as its own character
\* code shifted left by four bits in eight bits.
hex_decode(ds) ==
    IF ds = <<>> THEN <<>>
    ELSE IF Len(ds) = 1 THEN <<(ds[1] * 16) % 256>>
    ELSE <<hex_char_to_nibble(ds[1]).v * 16 + hex_char_to_nibble(ds[2]).v>>
             \o hex_decode(Drop(ds, 2))

hex_string_object(s) ==
    IF s = <<>> \/ Head(s) # LT THEN Err("Nom")
    ELSE LET n == hex_digit0(Tail(s))
             after == Drop(Tail(s), n)
         IN  IF n = 0 \/ after = <<>> \/ Head(after) # GT THEN Err("Nom")
             ELSE Ok([t |-> "HexString", hex |-> hex_decode(Take(Tail(s), n))],
                     multispace0(Tail(after)))

RECURSIVE not_line_ending(_)
\* The number of bytes before the first CR or LF, or -1 when the first line
\* break is a CR that no LF follows.
not_line_ending(s) ==
    IF s = <<>> \/ Head(s) = LF THEN 0
    ELSE IF Head(s) = CR
         THEN IF Len(s) >= 2 /\ s[2] = LF THEN 0 ELSE -1
         ELSE LET n == not_line_ending(Tail(s)) IN IF n < 0 THEN -1 ELSE n + 1

\* A line_ending that never matches.
no_line_ending(s) == Err("Nom")

\* character::complete::line_ending
line_ending(s) ==
    IF StartsWith(s, <<LF>>) THEN Ok(<<LF>>, Tail(s))
    ELSE IF StartsWith(s, <<CR, LF>>) THEN Ok(<<CR, LF>>, Drop(s, 2))
    ELSE Err("Nom")

comment(s) ==
    LET a == multispace0(s)
        n == IF a # <<>> /\ Head(a) = 37 THEN not_line_ending(Tail(a)) ELSE -1
        e == IF n >= 0 THEN line_ending(Drop(Tail(a), n)) ELSE Err("Nom")
    IN  IF e.ok THEN Ok(Take(Tail(a), n), multispace0(e.rest)) ELSE Err("Nom")

RECURSIVE many0_comment(_)
many0_comment(s) ==
    LET c == comment(s) IN IF c.ok THEN many0_comment(c.rest) ELSE s

(***************************************************************************)
(* Dictionaries, arrays, streams, indirect objects and the object          *)
(* dispatch: parse/object.rs.  A dictionary is a function from names to    *)
(* objects, an array a sequence of objects.                                *)
(***************************************************************************)
EmptyDict == <<>>

\* Dictionary::insert: a later entry replaces an earlier one of the same name.
DictInsert(d, k, v) == [x \in (DOMAIN d) \cup {k} |-> IF x = k THEN v ELSE d[x]]

\* The `?` of Rust: the steps F that follow a parser result r run when r is a
\* success, else r is returned.
AndThen(r, F(_)) == IF r.ok THEN F(r) ELSE r

\* A parser that may fail without failing the whole: its result, or r.
OrElse(r, alt) == IF Final(r) THEN r ELSE alt

\* combinator::into: the Dictionary, Array or Name as an Object.
IntoDictionary(r) == IF r.ok THEN Ok([t |-> "Dictionary", dict |-> r.val], r.rest) ELSE r

IntoArray(r) == IF r.ok THEN Ok([t |-> "Array", items |-> r.val], r.rest) ELSE r

IntoName(r) == IF r.ok THEN Ok([t |-> "Name", name |-> r.val], r.rest) ELSE r

RECURSIVE FirstFinal(_)
\* branch::alt: the first alternative that succeeds (or aborts), else the
\* error of the last one.
FirstFinal(rs) ==
    IF Len(rs) = 1 \/ Final(Head(rs)) THEN Head(rs) ELSE FirstFinal(Tail(rs))

RECURSIVE object(_)
RECURSIVE dictionary_entries(_, _)
RECURSIVE array_items(_, _)

dictionary_entry(s) ==
    AndThen(name_object(s), LAMBDA name :
    AndThen(object(name.rest), LAMBDA obj :
    Ok(<<name.val, obj.val>>, many0_comment(obj.rest))))

\* multi::fold_many0(dictionary_entry, ...)
dictionary_entries(s, acc) ==
    OrElse(AndThen(dictionary_entry(s), LAMBDA e :
               dictionary_entries(e.rest, DictInsert(acc, e.val[1], e.val[2]))),
           Ok(acc, s))

dictionary_object(s) ==
    AndThen(tag(<<LT, LT>>, s), LAMBDA open :
    AndThen(dictionary_entries(multispace0(open.rest), EmptyDict), LAMBDA es :
    AndThen(tag(<<GT, GT>>, es.rest), LAMBDA close :
    Ok(es.val, multispace0(close.rest)))))

\* multi::fold_many0(object, ...)
array_items(s, acc) ==
    OrElse(AndThen(object(s), LAMBDA e : array_items(e.rest, Append(acc, e.val))),
           Ok(acc, s))

array_object(s) ==
    AndThen(tag(<<91>>, s), LAMBDA open :
    AndThen(array_items(multispace0(open.rest), <<>>), LAMBDA es :
    AndThen(tag(<<93>>, es.rest), LAMBDA close :
    Ok(es.val, multispace0(close.rest)))))

stream_by_length(length, s) ==
    IF Len(s) < length THEN Err("Nom")
    ELSE AndThen(tag(KW_ENDSTREAM, OrElse(line_ending(Drop(s, length)),
                                          Ok(<<>>, Drop(s, length))).rest), LAMBDA end :
         AndThen(require_termination(end.rest), LAMBDA term :
         Ok(Take(s, length), term.rest)))

RECURSIVE take_until(_, _)
\* bytes::complete::take_until: the bytes before the first occurrence of t.
take_until(t, s) ==
    IF StartsWith(s, t) THEN Ok(<<>>, s)
    ELSE IF s = <<>> THEN Err("Nom")
    ELSE AndThen(take_until(t, Tail(s)), LAMBDA r : Ok(<<Head(s)>> \o r.val, r.rest))

stream_by_keyword(s) ==
    AndThen(take_until(KW_ENDSTREAM, s), LAMBDA data :
    AndThen(tag(KW_ENDSTREAM, data.rest), LAMBDA end :
    AndThen(require_termination(end.rest), LAMBDA term :
    Ok(data.val, term.rest))))

\* The /Length the stream parser uses: the entry when it is an integer, else 0.
stream_length(dict) ==
    IF K_LENGTH \in DOMAIN dict /\ dict[K_LENGTH].t = "Integer"
    THEN dict[K_LENGTH].int ELSE 0

\* usize::try_from(length).unwrap() aborts the process on a negative length.
stream_object(s) ==
    AndThen(dictionary_object(s), LAMBDA dict :
    AndThen(tag(KW_STREAM, dict.rest), LAMBDA kw :
    AndThen(OrElse(tag(<<CR, LF>>, kw.rest), tag(<<LF>>, kw.rest)), LAMBDA eol :
    IF stream_length(dict.val) < 0 THEN Err("panic")
    ELSE AndThen(OrElse(stream_by_length(stream_length(dict.val), eol.rest),
                        stream_by_keyword(eol.rest)), LAMBDA data :
         Ok([t |-> "Stream", dictionary |-> dict.val, data |-> data.val], data.rest)))))

multispace1(s) ==
    IF s # <<>> /\ IsMultispace(Head(s)) THEN Ok(<<>>, multispace0(s)) ELSE Err("Nom")

reference_object(index, generation, s) ==
    AndThen(tag(<<82>>, s), LAMBDA r :
    AndThen(require_termination(r.rest), LAMBDA term :
    Ok([t |-> "Reference", index |-> index, generation |-> generation], term.rest)))

referred_object(index, generation, s) ==
    AndThen(tag(KW_OBJ, s), LAMBDA kw :
    AndThen(OrElse(stream_object(multispace0(kw.rest)), object(multispace0(kw.rest))),
            LAMBDA inner :
    AndThen(tag(KW_ENDOBJ, inner.rest), LAMBDA end :
    AndThen(require_termination(end.rest), LAMBDA term :
    Ok([t |-> "Indirect", index |-> index, generation |-> generation,
        object |-> inner.val], term.rest)))))

indirect_object(s) ==
    AndThen(parse_u32(s), LAMBDA index :
    AndThen(multispace1(index.rest), LAMBDA s1 :
    AndThen(parse_u32(s1.rest), LAMBDA generation :
    AndThen(multispace1(generation.rest), LAMBDA s2 :
    OrElse(reference_object(index.val, generation.val, s2.rest),
           referred_object(index.val, generation.val, s2.rest))))))

\* The alternatives in the order of the code.
object(s) ==
    FirstFinal(<<IntoDictionary(dictionary_object(s)),
                 IntoArray(array_object(s)),
                 string_object(s),
                 indirect_object(s),
                 number_object(s),
                 bool_object(s),
                 null_object(s),
                 hex_string_object(s),
                 IntoName(name_object(s))>>)

(***************************************************************************)
(* SimpleEncoder: simple_encode/object.rs, simple_encode/object/*.rs and   *)
(* simple_encode/name.rs.  An encoder is an operator from the value to the *)
(* bytes it writes.  The iteration order of a dictionary (a hash map) is   *)
(* not defined: ord, a sequence of names, is the order of one run.         *)
(***************************************************************************)
\* hex::encode of one nibble: lower-case digits.
HexChar(n) == IF n < 10 THEN 48 + n ELSE 87 + n

RECURSIVE hex_encode(_)
hex_encode(bs) ==
    IF bs = <<>> THEN <<>>
    ELSE <<HexChar(Head(bs) \div 16), HexChar(Head(bs) % 16)>> \o hex_encode(Tail(bs))

RECURSIVE name_escape(_)
\* A regular byte is written as it is, any other as '#' and two hex digits.
name_escape(n) ==
    IF n = <<>> THEN <<>>
    ELSE (IF is_regular(Head(n)) THEN <<Head(n)>> ELSE <<HASH>> \o hex_encode(<<Head(n)>>))
             \o name_escape(Tail(n))

\* The name encoder opens the name with a backslash.
write_to_name(n) == <<BSL>> \o name_escape(n)

RECURSIVE string_escape(_, _, _)
\* The loop of the string encoder: a backslash goes before a '(' when no ')'
\* remains and before a ')' when no '(' is open.
string_escape(str, open_paranthesis, remaining_closing_paranthesis) ==
    IF str = <<>> THEN <<>>
    ELSE IF Head(str) = LP
         THEN (IF remaining_closing_paranthesis = 0 THEN <<BSL, LP>> ELSE <<LP>>)
                  \o string_escape(Tail(str), open_paranthesis + 1,
                                   remaining_closing_paranthesis)
    ELSE IF Head(str) = RP
         THEN IF open_paranthesis = 0
              THEN <<BSL, RP>>
                       \o string_escape(Tail(str), 0,
                                        IF remaining_closing_paranthesis = 0 THEN 0
                                        ELSE remaining_closing_paranthesis - 1)
              ELSE <<RP>>
                       \o string_escape(Tail(str), open_paranthesis - 1,
                                        IF remaining_closing_paranthesis = 0 THEN 0
                                        ELSE remaining_closing_paranthesis - 1)
    ELSE <<Head(str)>> \o string_escape(Tail(str), open_paranthesis,
                                         remaining_closing_paranthesis)

write_to_string(str) ==
    <<LP>> \o string_escape(str, 0, Len(SelectSeq(str, LAMBDA c : c = RP))) \o <<RP>>

RECURSIVE string_escapes(_, _, _)
\* The loop of encoded_len of a string: the bytes that are counted twice.
string_escapes(str, open_paranthesis, remaining_closing_paranthesis) ==
    IF str = <<>> THEN 0
    ELSE IF Head(str) = LP
         THEN (IF remaining_closing_paranthesis = 0 THEN 1 ELSE 0)
                  + string_escapes(Tail(str), open_paranthesis + 1,
                                   remaining_closing_paranthesis)
    ELSE IF Head(str) = RP
         THEN IF open_paranthesis = 0
              THEN 1 + string_escapes(Tail(str), 0, remaining_closing_paranthesis - 1)
              ELSE string_escapes(Tail(str), open_paranthesis - 1,
                                  remaining_closing_paranthesis - 1)
    ELSE string_escapes(Tail(str), open_paranthesis, remaining_closing_paranthesis)

\* A variant that counts the string without its two parentheses.
encoded_len_string_content(str) ==
    Len(str) + string_escapes(str, 0, Len(SelectSeq(str, LAMBDA c : c = RP)))

\* Encoder<CbString>::encoded_len
encoded_len_string(str) ==
    Len(str) + string_escapes(str, 0, Len(SelectSeq(str, LAMBDA c : c = RP))) + 2

RECURSIVE name_len_sum(_)
\* The sum of encoded_len of a name: 1 for a regular byte, 3 for any other.
name_len_sum(n) ==
    IF n = <<>> THEN 0
    ELSE (IF is_regular(Head(n)) THEN 1 ELSE 3) + name_len_sum(Tail(n))

\* Encoder<Name>::encoded_len
encoded_len_name(n) == name_len_sum(n) + 1

RECURSIVE Pow10(_)
Pow10(k) == IF k = 0 THEN 1 ELSE 10 * Pow10(k - 1)

RECURSIVE ZeroPad(_, _)
ZeroPad(ds, k) == IF Len(ds) >= k THEN ds ELSE ZeroPad(<<48>> \o ds, k)

\* f32::to_string of the value <<signed digits, number of fraction digits>>.
write_to_float(v) ==
    LET mag == IF v[1] < 0 THEN 0 - v[1] ELSE v[1]
    IN  (IF v[1] < 0 THEN <<45>> ELSE <<>>)
            \o to_string(mag \div Pow10(v[2]))
            \o (IF v[2] = 0 THEN <<>>
                ELSE <<46>> \o ZeroPad(to_string(mag % Pow10(v[2])), v[2]))

RECURSIVE write_to(_, _)
RECURSIVE write_to_array_items(_, _, _)
RECURSIVE write_to_dictionary_entries(_, _, _, _)

write_to_array_items(items, is_first, ord) ==
    IF items = <<>> THEN <<>>
    ELSE (IF is_first THEN <<>> ELSE <<SP>>)
             \o write_to(Head(items), ord)
             \o write_to_array_items(Tail(items), FALSE, ord)

write_to_array(array, ord) == <<91>> \o write_to_array_items(array, TRUE, ord) \o <<93>>

write_to_dictionary_entries(o, keys, is_first, ord) ==
    IF keys = <<>> THEN <<>>
    ELSE (IF is_first THEN <<>> ELSE <<SP>>)
             \o write_to_name(Head(keys)) \o <<SP>> \o write_to(o[Head(keys)], ord)
             \o write_to_dictionary_entries(o, Tail(keys), FALSE, ord)

write_to_dictionary(o, ord) ==
    <<LT, LT>>
        \o write_to_dictionary_entries(o, SelectSeq(ord, LAMBDA k : k \in DOMAIN o), TRUE, ord)
        \o <<GT, GT>>

\* A variant that writes the dictionary of the stream as it is.
write_to_stream_stale_length(s, ord) ==
    write_to_dictionary(s.dictionary, ord)
        \o <<SP>> \o KW_STREAM \o <<LF>> \o s.data \o <<LF>> \o KW_ENDSTREAM

\* The dictionary is written with /Length set to the length of the payload.
write_to_stream(s, ord) ==
    write_to_dictionary(DictInsert(s.dictionary, K_LENGTH,
                                   [t |-> "Integer", int |-> Len(s.data)]), ord)
        \o <<SP>> \o KW_STREAM \o <<LF>> \o s.data \o <<LF>> \o KW_ENDSTREAM

write_to_indirect(o, ord) ==
    to_string(o.index) \o <<SP>> \o to_string(o.generation) \o <<SP>> \o KW_OBJ \o <<LF>>
        \o write_to(o.object, ord) \o KW_ENDOBJ \o <<LF>>

\* Encoder<Object>: the bytes of the value, then a line feed.
write_to(obj, ord) ==
    (CASE obj.t = "String" -> write_to_string(obj.str)
       [] obj.t = "HexString" -> <<LT>> \o hex_encode(obj.hex) \o <<GT>>
       [] obj.t = "Float" -> write_to_float(obj.float)
       [] obj.t = "Integer" -> to_string(obj.int)
       [] obj.t = "Bool" -> IF obj.bool THEN TRUE_OBJECT ELSE FALSE_OBJECT
       [] obj.t = "Name" -> write_to_name(obj.name)
       [] obj.t = "Array" -> write_to_array(obj.items, ord)
       [] obj.t = "Dictionary" -> write_to_dictionary(obj.dict, ord)
       [] obj.t = "Stream" -> write_to_stream(obj, ord)
       [] obj.t = "Null" -> NULL_OBJECT
       [] obj.t = "Indirect" -> write_to_indirect(obj, ord)
       [] obj.t = "Reference" ->
              <<82, SP>> \o to_string(obj.generation) \o <<SP>> \o to_string(obj.index))
        \o <<LF>>

\* Encoder<Stream> on a writer: s is borrowed and its dictionary is cloned
\* before /Length is inserted, so s is after the call what it was before.
write_to_stream_on(s, writer, ord) ==
    [s |-> s, writer |-> writer \o write_to_stream(s, ord)]

(***************************************************************************)
(* The trailer: pdf/trailer.rs, TryFrom<Dictionary> for Trailer.           *)
(***************************************************************************)
K_SIZE == <<83, 105, 122, 101>>

K_PREVIOUS == <<80, 114, 101, 118>>

K_ENCRYPT == <<69, 110, 99, 114, 121, 112, 116>>

K_ROOT == <<82, 111, 111, 116>>

\* The key of the info entry is written in lower case in the code.
K_INFO == <<105, 110, 102, 111>>

K_ID == <<73, 68>>

K_X_REF_STM == <<88, 82, 101, 102, 83, 116, 109>>

\* Dictionary::get
DictGet(dict, key) == IF key \in DOMAIN dict THEN Some(dict[key]) ELSE None

\* A value of a result type: Ok(v) or Err(e), without a remaining input.
Good(v) == [ok |-> TRUE, val |-> v]

trailer_size(dict) ==
    LET o == DictGet(dict, K_SIZE)
    IN  IF ~o.some THEN Err("MissingSize")
        ELSE IF o.v.t # "Integer" \/ o.v.int < 0 THEN Err("InvalidSize")
        ELSE Good(o.v.int)

\* A variant that takes a missing entry for the start of the file.
trailer_previous_or_zero(dict) ==
    LET o == DictGet(dict, K_PREVIOUS)
    IN  IF ~o.some \/ o.v.t # "Integer" THEN Good(Some(0))
        ELSE IF o.v.int < 0 THEN Err("InvalidPrevious")
        ELSE Good(Some(o.v.int))

\* An entry that is no integer counts as absent, a negative one is an error.
trailer_previous(dict) ==
    LET o == DictGet(dict, K_PREVIOUS)
    IN  IF ~o.some \/ o.v.t # "Integer" THEN Good(None)
        ELSE IF o.v.int < 0 THEN Err("InvalidPrevious")
        ELSE Good(Some(o.v.int))

\* A variant that does not tell a missing root from a malformed one.
trailer_root_one_error(dict) ==
    LET o == DictGet(dict, K_ROOT)
    IN  IF ~o.some \/ o.v.t # "Reference" THEN Err("InvalidRoot")
        ELSE Good(o.v)

trailer_root(dict) ==
    LET o == DictGet(dict, K_ROOT)
    IN  IF ~o.some THEN Err("MissingRoot")
        ELSE IF o.v.t # "Reference" THEN Err("InvalidRoot")
        ELSE Good(o.v)

trailer_encrypt(dict) ==
    LET o == DictGet(dict, K_ENCRYPT)
    IN  IF o.some /\ o.v.t = "Dictionary" THEN Some(o.v.dict) ELSE None

trailer_info(dict) ==
    LET o == DictGet(dict, K_INFO)
    IN  IF ~o.some THEN Good(None)
        ELSE IF o.v.t # "Reference" THEN Err("InvalidInfo")
        ELSE Good(Some(o.v))

trailer_id(dict) ==
    LET o == DictGet(dict, K_ID)
    IN  IF ~o.some THEN Good(None)
        ELSE IF o.v.t # "Array" THEN Err("InvalidId")
        ELSE IF Len(o.v.items) # 2 THEN Err("InvalidId")
        ELSE IF o.v.items[1].t # "HexString" \/ o.v.items[2].t # "HexString"
             THEN Err("InvalidId")
        ELSE Good(Some(<<o.v.items[1].hex, o.v.items[2].hex>>))

trailer_x_ref_stm(dict) ==
    LET o == DictGet(dict, K_X_REF_STM)
    IN  IF ~o.some THEN Good(None)
        ELSE IF o.v.t # "Integer" \/ o.v.int < 0 THEN Err("InvalidXRefStm")
        ELSE Good(Some(o.v.int))

\* Trailer::try_from: the fields in the order of the code, the first error
\* is the result.
trailer_try_from(dict) ==
    AndThen(trailer_size(dict), LAMBDA size :
    AndThen(trailer_previous(dict), LAMBDA previous :
    AndThen(trailer_root(dict), LAMBDA root :
    AndThen(trailer_info(dict), LAMBDA info :
    AndThen(trailer_id(dict), LAMBDA id :
    AndThen(trailer_x_ref_stm(dict), LAMBDA x_ref_stm :
    Good([size |-> size.val, previous |-> previous.val, root |-> root.val,
          encrypt |-> trailer_encrypt(dict), info |-> info.val, id |-> id.val,
          x_ref_stm |-> x_ref_stm.val])))))))

(***************************************************************************)
(* The trailer of a table section: parse/trailer.rs, into_trailer.  Size,  *)
(* previous, root and id are read as in Trailer::try_from.                 *)
(***************************************************************************)
\* The encrypt entry is kept whatever object it is.
into_trailer_encrypt(dict) == DictGet(dict, K_ENCRYPT)

\* The info field is read under the key of the root.
into_trailer_info(dict) ==
    LET o == DictGet(dict, K_ROOT)
    IN  IF ~o.some THEN Good(None)
        ELSE IF o.v.t # "Reference" THEN Err("InvalidInfo")
        ELSE Good(Some(o.v))

\* The entry is required; one that is no integer gives no value, a negative
\* one is an error.
into_trailer_x_ref_stm(dict) ==
    LET o == DictGet(dict, K_X_REF_STM)
    IN  IF ~o.some THEN Err("MissingXRefStm")
        ELSE IF o.v.t # "Integer" THEN Good(None)
        ELSE IF o.v.int < 0 THEN Err("InvalidXRefStm")
        ELSE Good(Some(o.v.int))

into_trailer(dict) ==
    AndThen(trailer_size(dict), LAMBDA size :
    AndThen(trailer_previous(dict), LAMBDA previous :
    AndThen(trailer_root(dict), LAMBDA root :
    AndThen(into_trailer_info(dict), LAMBDA info :
    AndThen(trailer_id(dict), LAMBDA id :
    AndThen(into_trailer_x_ref_stm(dict), LAMBDA x_ref_stm :
    Good([size |-> size.val, previous |-> previous.val, root |-> root.val,
          encrypt |-> into_trailer_encrypt(dict), info |-> info.val,
          id |-> id.val, x_ref_stm |-> x_ref_stm.val])))))))

(***************************************************************************)
(* Stream filters: pdf/stream.rs.                                          *)
(***************************************************************************)
FILTER == <<70, 105, 108, 116, 101, 114>>

FILTER_ASCII_HEX == <<65, 83, 67, 73, 73, 72, 101, 120, 68, 101, 99, 111, 100, 101>>

FILTER_FLATE == <<70, 108, 97, 116, 101, 68, 101, 99, 111, 100, 101>>

\* The names of the filters the code knows and does not implement.
UnsupportedFilters ==
    { <<65, 83, 67, 73, 73, 56, 53, 68, 101, 99, 111, 100, 101>>,
      <<76, 90, 87, 68, 101, 99, 111, 100, 101>>,
      <<82, 117, 110, 76, 101, 110, 103, 116, 104, 68, 101, 99, 111, 100, 101>>,
      <<67, 67, 73, 84, 84, 70, 97, 120, 68, 101, 99, 111, 100, 101>>,
      <<74, 66, 73, 71, 50, 68, 101, 99, 111, 100, 101>>,
      <<68, 67, 84, 68, 101, 99, 111, 100, 101>>,
      <<74, 80, 88, 68, 101, 99, 111, 100, 101>>,
      <<67, 114, 121, 112, 116>> }

\* Stream::filters: the names under /Filter, a name or an array of names.
filters(s) ==
    LET o == DictGet(s.dictionary, FILTER)
    IN  IF ~o.some THEN Good(<<>>)
        ELSE IF o.v.t = "Name" THEN Good(<<o.v.name>>)
        ELSE IF o.v.t = "Array"
             THEN IF \A i \in 1..Len(o.v.items) : o.v.items[i].t = "Name"
                  THEN Good([i \in 1..Len(o.v.items) |-> o.v.items[i].name])
                  ELSE Err("InvalidFilter")
        ELSE Err("InvalidFilter")

\* The nibble of a hexadecimal digit, as the match of decode_ascii_hex.
ascii_hex_nibble(b) ==
    IF b \in 48..57 THEN b - 48
    ELSE IF b \in 65..70 THEN b - 65 + 10
    ELSE b - 97 + 10

NotAsciiWhitespace(b) == ~IsAsciiWhitespace(b)

\* The number of rounds the loop of decode_ascii_hex runs with a digit: the
\* bytes before the first one that is no hexadecimal digit.
ascii_hex_rounds(bytes) ==
    IF \A i \in 1..Len(bytes) : IsHexDigit(bytes[i]) THEN Len(bytes)
    ELSE (CHOOSE i \in 1..Len(bytes) :
              ~IsHexDigit(bytes[i]) /\ \A k \in 1..(i - 1) : IsHexDigit(bytes[k])) - 1

\* The buffer after n rounds with a digit: every second round pushes the
\* byte of the pending nibble and the digit.
ascii_hex_buffer(bytes, n) ==
    [i \in 1..(n \div 2) |->
        ascii_hex_nibble(bytes[2 * i - 1]) * 16 + ascii_hex_nibble(bytes[2 * i])]

\* decode_ascii_hex: the loop runs over the bytes that are no white space.
\* The first byte that is no digit ends it: the end mark pushes a pending
\* nibble with a zero low nibble and breaks, any other byte is an error.
\* When the data ends in the loop the buffer is returned as it is and a
\* pending nibble is not looked at.
decode_ascii_hex(data) ==
    LET bytes == SelectSeq(data, NotAsciiWhitespace)
        n == ascii_hex_rounds(bytes)
    IN  IF n = Len(bytes) THEN Good(ascii_hex_buffer(bytes, n))
        ELSE IF bytes[n + 1] # GT THEN Err("InvalidData")
        ELSE IF n % 2 = 1
             THEN Good(Append(ascii_hex_buffer(bytes, n),
                              (ascii_hex_nibble(bytes[n]) * 16) % 256))
        ELSE Good(ascii_hex_buffer(bytes, n))

\* Data that is no zlib stream; the streams of this model hold none.
decode_flate(data) == Err("InvalidData")

\* The errors of the filters that are not implemented and of unknown names
\* carry the name.
filter(filter_name, data) ==
    IF filter_name = FILTER_ASCII_HEX THEN decode_ascii_hex(data)
    ELSE IF filter_name = FILTER_FLATE THEN decode_flate(data)
    ELSE IF filter_name \in UnsupportedFilters
         THEN [ok |-> FALSE, err |-> "UnsupportedFilter", name |-> filter_name]
    ELSE [ok |-> FALSE, err |-> "UnknownFilter", name |-> filter_name]

RECURSIVE apply_filters_reverse(_, _)
\* A variant that applies the last name first.
apply_filters_reverse(fs, data) ==
    IF fs = <<>> THEN Good(data)
    ELSE AndThen(apply_filters_reverse(Tail(fs), data),
                 LAMBDA out : filter(Head(fs), out.val))

RECURSIVE apply_filters(_, _)
apply_filters(fs, data) ==
    IF fs = <<>> THEN Good(data)
    ELSE AndThen(filter(Head(fs), data), LAMBDA out : apply_filters(Tail(fs), out.val))

\* Stream::filtered_data
filtered_data(s) ==
    AndThen(filters(s), LAMBDA fs : apply_filters(fs.val, s.data))

(***************************************************************************)
(* Object streams: parse/object_stream.rs.                                 *)
(***************************************************************************)
K_TYPE == <<84, 121, 112, 101>>

OBJECT_STREAM == <<79, 98, 106, 83, 116, 109>>

K_STREAM_OBJECT_COUNT == <<78>>

K_FIRST == <<70, 105, 114, 115, 116>>

RECURSIVE parse_content_loop(_, _, _, _, _)
\* One pair of the header per round: the object number and the offset of
\* the object behind first_offset.  The object is parsed from the input
\* with first_offset + byte_offset bytes taken off.
parse_content_loop(n, first_offset, data, remainder, objects) ==
    IF n = 0 THEN Ok(objects, remainder)
    ELSE AndThen(parse_u32(remainder), LAMBDA obj_number :
         AndThen(multispace1(obj_number.rest), LAMBDA sp :
         AndThen(parse_u32(sp.rest), LAMBDA byte_offset :
         IF Len(data) < first_offset + byte_offset.val THEN Err("Nom")
         ELSE AndThen(object(Drop(data, first_offset + byte_offset.val)), LAMBDA obj :
              parse_content_loop(n - 1, first_offset, data,
                                 multispace0(byte_offset.rest),
                                 Append(objects, <<obj_number.val, obj.val>>))))))

\* A variant that takes the offsets of the pairs from the start of the data.
parse_content_from_start(obj_count, first_offset, data) ==
    parse_content_loop(obj_count, 0, data, data, <<>>)

parse_content(obj_count, first_offset, data) ==
    parse_content_loop(obj_count, first_offset, data, data, <<>>)

\* get(key).and_then(Object::integer) followed by the conversion to usize.
UsizeEntry(dict, key) ==
    LET o == DictGet(dict, key)
    IN  IF o.some /\ o.v.t = "Integer" /\ o.v.int >= 0 THEN Good(o.v.int)
        ELSE Err("panic")

IsObjectStream(dict) ==
    LET o == DictGet(dict, K_TYPE)
    IN  o.some /\ o.v.t = "Name" /\ o.v.name = OBJECT_STREAM

\* object_stream: every failure is an expect on a missing value.
Expect(r) == IF r.ok THEN r ELSE Err("panic")

object_stream(s) ==
    IF ~IsObjectStream(s.dictionary) THEN Err("panic")
    ELSE AndThen(UsizeEntry(s.dictionary, K_LENGTH), LAMBDA length :
         AndThen(UsizeEntry(s.dictionary, K_STREAM_OBJECT_COUNT), LAMBDA obj_count :
         AndThen(UsizeEntry(s.dictionary, K_FIRST), LAMBDA first_offset :
         AndThen(Expect(filtered_data(s)), LAMBDA data :
         AndThen(Expect(parse_content(obj_count.val, first_offset.val, data.val)),
                 LAMBDA objs : Good(objs.val))))))

(***************************************************************************)
(* Lookups in the assembled document: pdf.rs.                              *)
(***************************************************************************)
RECURSIVE RawPdf_object_oldest(_, _)
\* A variant that prefers the oldest revision that has the number.
RawPdf_object_oldest(secs, num) ==
    IF secs = <<>> THEN None
    ELSE IF RawPdf_object_oldest(Tail(secs), num).some
         THEN RawPdf_object_oldest(Tail(secs), num)
    ELSE IF num \in DOMAIN Head(secs).objects THEN Some(Head(secs).objects[num])
    ELSE None

RECURSIVE RawPdf_object(_, _)
\* RawPdf::object: the entry of the first revision that has the number.
RawPdf_object(secs, num) ==
    IF secs = <<>> THEN None
    ELSE IF num \in DOMAIN Head(secs).objects THEN Some(Head(secs).objects[num])
    ELSE RawPdf_object(Tail(secs), num)

\* What one revision answers to a reference: the object inside the entry
\* under the index, when the entry is an indirect object of the generation.
section_dereference(sec, reference) ==
    IF reference.index \in DOMAIN sec.objects
       /\ sec.objects[reference.index].t = "Indirect"
       /\ sec.objects[reference.index].generation = reference.generation
    THEN Some(sec.objects[reference.index].object)
    ELSE None

RECURSIVE dereference(_, _)
\* RawPdf::dereference: the first revision that has an answer.
dereference(secs, reference) ==
    IF secs = <<>> THEN None
    ELSE IF section_dereference(Head(secs), reference).some
         THEN section_dereference(Head(secs), reference)
    ELSE dereference(Tail(secs), reference)

(***************************************************************************)
(* Cross-reference entries: pdf/xref.rs.                                   *)
(***************************************************************************)
FreeObject(number, generation, next_free) ==
    [type |-> "Free", number |-> number, generation |-> generation,
     next_free |-> next_free]

UsedObject(number, byte_offset, generation) ==
    [type |-> "Used", number |-> number, byte_offset |-> byte_offset,
     generation |-> generation]

UsedCompressedObject(number, containing_object, index) ==
    [type |-> "UsedCompressed", number |-> number,
     containing_object |-> containing_object, index |-> index]

IsUsed(e) == e.type = "Used"

IsCompressed(e) == e.type = "UsedCompressed"

IsFree(e) == e.type = "Free"

used_objects(xref) == SelectSeq(xref.entries, IsUsed)

compressed_objects(xref) == SelectSeq(xref.entries, IsCompressed)

free_objects(xref) == SelectSeq(xref.entries, IsFree)

(***************************************************************************)
(* The cross-reference table: parse/xref.rs, xref_entries and xref_section,*)
(* and Xref::new of pdf/xref.rs.  An offset is a u64 and an object number  *)
(* may be any u32: the fields of the entries of a parsed table are kept as *)
(* their decimal digits without leading zeros.                             *)
(***************************************************************************)
U64_MAX == <<49, 56, 52, 52, 54, 55, 52, 52, 48, 55, 51, 55, 48, 57, 53, 53, 49, 54, 49, 53>>

KW_XREF == <<120, 114, 101, 102>>

\* The decimal digits of a number without leading zeros, "0" for zero.
Canonical(ds) == IF StripLeadingZeros(ds) = <<>> THEN <<48>> ELSE StripLeadingZeros(ds)

\* character::complete::u32 and u64: a run of digits, an error on overflow.
parse_unsigned(max, s) ==
    IF digit0(s) = 0 \/ ~FitsIn(Take(s, digit0(s)), max) THEN Err("Nom")
    ELSE Ok(Canonical(Take(s, digit0(s))), Drop(s, digit0(s)))

RECURSIVE AddDigits(_, _)
\* The digits of the sum of the number with the digits ds and the number c.
AddDigits(ds, c) ==
    IF c = 0 THEN ds
    ELSE IF ds = <<>> THEN to_string(c)
    ELSE AddDigits(SubSeq(ds, 1, Len(ds) - 1), (ds[Len(ds)] - 48 + c) \div 10)
            \o <<48 + ((ds[Len(ds)] - 48 + c) % 10)>>

RECURSIVE u32_wrapping_add(_, _)
\* The sum of two u32 in 32 bits, i at a time.
u32_wrapping_add(ds, i) ==
    IF i = 0 THEN ds
    ELSE IF ds = U32_MAX THEN u32_wrapping_add(<<48>>, i - 1)
    ELSE u32_wrapping_add(AddDigits(ds, 1), i - 1)

\* obj_index_offset + i on u32: a build with overflow checks aborts when the
\* sum does not fit, a build without them wraps around.
u32_add(ds, i, build) ==
    IF FitsIn(AddDigits(ds, i), U32_MAX) THEN Good(AddDigits(ds, i))
    ELSE IF build = "checked" THEN Err("panic")
    ELSE Good(u32_wrapping_add(ds, i))

\* alt((value(false, tag("n")), value(true, tag("f"))))
free_flag(s) ==
    IF StartsWith(s, <<110>>) THEN Ok(FALSE, Drop(s, 1))
    ELSE IF StartsWith(s, <<102>>) THEN Ok(TRUE, Drop(s, 1))
    ELSE Err("Nom")

\* The body of the loop of xref_entries: the entry with index i of the
\* subsection that starts at object number first.
xref_entry(first, i, build, s) ==
    AndThen(parse_unsigned(U64_MAX, s), LAMBDA off :
    AndThen(parse_unsigned(U32_MAX, multispace0(off.rest)), LAMBDA gen :
    AndThen(free_flag(multispace0(gen.rest)), LAMBDA free :
    AndThen(u32_add(first, i, build), LAMBDA number :
    Ok(IF free.val THEN FreeObject(number.val, gen.val, off.val)
       ELSE UsedObject(number.val, off.val, gen.val),
       multispace0(free.rest))))))

RECURSIVE xref_entries_loop(_, _, _, _, _, _)
xref_entries_loop(first, i, obj_count, build, s, entries) ==
    IF to_string(i) = obj_count THEN Ok(entries, s)
    ELSE AndThen(xref_entry(first, i, build, s), LAMBDA e :
         xref_entries_loop(first, i + 1, obj_count, build, e.rest, Append(entries, e.val)))

\* xref_entries: the header "first count" and count entries.
xref_entries(build, s) ==
    AndThen(parse_unsigned(U32_MAX, s), LAMBDA obj_index_offset :
    AndThen(parse_unsigned(U32_MAX, multispace0(obj_index_offset.rest)), LAMBDA obj_count :
    xref_entries_loop(obj_index_offset.val, 0, obj_count.val, build,
                      multispace0(obj_count.rest), <<>>)))

RECURSIVE many0_xref_entries(_, _, _)
\* The subsections after the first: until one does not parse.
many0_xref_entries(build, s, acc) ==
    OrElse(AndThen(xref_entries(build, s), LAMBDA sub :
                   many0_xref_entries(build, sub.rest, acc \o sub.val)),
           Ok(acc, s))

\* multi::many1(xref_entries), the subsections flattened.
many1_xref_entries(build, s) ==
    AndThen(xref_entries(build, s), LAMBDA sub :
    many0_xref_entries(build, sub.rest, sub.val))

\* a <= b for numbers in canonical digits.
NumLeq(a, b) == Len(a) < Len(b) \/ (Len(a) = Len(b) /\ LexLeq(a, b))

RECURSIVE insert_by_number(_, _)
\* e behind every entry of the sorted sequence whose number is not greater.
insert_by_number(sorted, e) ==
    IF sorted = <<>> THEN <<e>>
    ELSE IF NumLeq(sorted[Len(sorted)].number, e.number) THEN Append(sorted, e)
    ELSE Append(insert_by_number(SubSeq(sorted, 1, Len(sorted) - 1), e),
                sorted[Len(sorted)])

RECURSIVE sort_by_number(_)
\* entries.sort_by_key(|o| o.number()): a stable sort.
sort_by_number(es) ==
    IF es = <<>> THEN <<>>
    ELSE insert_by_number(sort_by_number(SubSeq(es, 1, Len(es) - 1)), es[Len(es)])

\* Xref::new_table
Xref_new_table(entries) == [entries |-> sort_by_number(entries), kind |-> "Table"]

xref_section(build, s) ==
    AndThen(tag(KW_XREF, multispace0(s)), LAMBDA kw :
    AndThen(many1_xref_entries(build, multispace0(kw.rest)), LAMBDA entries :
    Ok(Xref_new_table(entries.val), entries.rest)))

(***************************************************************************)
(* The data of a cross-reference stream: parse/xref.rs, xref_stream_entry  *)
(* and xref_stream_data.  A field is up to any number of bytes wide and is *)
(* folded into a usize of 64 bits: the value of a field is kept as its     *)
(* bytes, most significant first, without leading zero bytes.              *)
(***************************************************************************)
RECURSIVE StripZeroBytes(_)
StripZeroBytes(bs) ==
    IF bs # <<>> /\ Head(bs) = 0 THEN StripZeroBytes(Tail(bs)) ELSE bs

\* fold(0_usize, |acc, &v| (acc << 8) + usize::from(v)): the shift drops
\* what does not fit in 64 bits, so the last eight bytes make the value.
fold_usize(bs) ==
    StripZeroBytes(IF Len(bs) > 8 THEN SubSeq(bs, Len(bs) - 7, Len(bs)) ELSE bs)

\* The type numbers of the entries.
XREF_FREE == <<>>

XREF_USED == <<1>>

XREF_COMPRESSED == <<2>>

Unsupported(number, type_num, w1, w2) ==
    [type |-> "Unsupported", number |-> number, type_num |-> type_num,
     w1 |-> w1, w2 |-> w2]

\* bytes::complete::take
take(n, s) == IF Len(s) < n THEN Err("Nom") ELSE Ok(Take(s, n), Drop(s, n))

xref_stream_entry(w, s) ==
    AndThen(take(w[1], s), LAMBDA b1 :
    AndThen(take(w[2], b1.rest), LAMBDA b2 :
    AndThen(take(w[3], b2.rest), LAMBDA b3 :
    Ok(<<fold_usize(b1.val), fold_usize(b2.val), fold_usize(b3.val)>>, b3.rest))))

\* The match of xref_stream_data on the three numbers of an entry.
stream_entry(index, entry) ==
    IF entry[1] = XREF_FREE THEN FreeObject(index, entry[3], entry[2])
    ELSE IF entry[1] = XREF_USED THEN UsedObject(index, entry[2], entry[3])
    ELSE IF entry[1] = XREF_COMPRESSED THEN UsedCompressedObject(index, entry[2], entry[3])
    ELSE Unsupported(index, entry[1], entry[2], entry[3])

RECURSIVE xref_stream_data_loop(_, _, _, _)
xref_stream_data_loop(w, index, remainder, entries) ==
    IF Len(remainder) < w[1] + w[2] + w[3] THEN Ok(entries, remainder)
    ELSE AndThen(xref_stream_entry(w, remainder), LAMBDA e :
         xref_stream_data_loop(w, index + 1, e.rest,
                               Append(entries, stream_entry(index, e.val))))

\* xref_stream_data: the capacity of the vector is input.len() / entry_len,
\* a division by zero when all three widths are zero.
xref_stream_data(w, s) ==
    IF w[1] + w[2] + w[3] = 0 THEN Err("panic")
    ELSE xref_stream_data_loop(w, 0, s, <<>>)

(***************************************************************************)
(* The search from the end of the input: parse.rs, backward_search.  The   *)
(* parser that is searched for is a tag, compared with or without case.    *)
(***************************************************************************)
ToLower(b) == IF b \in 65..90 THEN b + 32 ELSE b

\* bytes::complete::tag_no_case: the match is the bytes of the input.
tag_no_case(t, s) ==
    IF Len(s) >= Len(t) /\ \A i \in 1..Len(t) : ToLower(s[i]) = ToLower(t[i])
    THEN Ok(Take(s, Len(t)), Drop(s, Len(t)))
    ELSE Err("Nom")

\* Parser::parse of the parser handed to backward_search.
parse(p, s) == IF p.kind = "tag" THEN tag(p.pat, s) ELSE tag_no_case(p.pat, s)

RECURSIVE backward_search_longest(_, _, _, _)
\* A variant that tries the longest suffix of the window first.
backward_search_longest(i, limit, p, input0) ==
    IF i < 1 \/ limit = 0 THEN Err("BackwardSearchNotFound")
    ELSE IF i <= limit /\ parse(p, Drop(input0, Len(input0) - i)).ok
         THEN Ok(<<parse(p, Drop(input0, Len(input0) - i)).rest,
                   parse(p, Drop(input0, Len(input0) - i)).val>>,
                 Take(input0, Len(input0) - i))
    ELSE backward_search_longest(i - 1, limit, p, input0)

backward_search_from_start(limit, p, input0) ==
    backward_search_longest(Len(input0), limit, p, input0)

RECURSIVE backward_search_loop(_, _, _, _)
\* The round for the suffix of length i: take splits the input, the parser
\* runs on the suffix, any error of the parser leads to the next round.
backward_search_loop(i, limit, p, input0) ==
    IF i > Len(input0) \/ i > limit THEN Err("BackwardSearchNotFound")
    ELSE IF parse(p, Drop(input0, Len(input0) - i)).ok
         THEN Ok(<<parse(p, Drop(input0, Len(input0) - i)).rest,
                   parse(p, Drop(input0, Len(input0) - i)).val>>,
                 Take(input0, Len(input0) - i))
    ELSE backward_search_loop(i + 1, limit, p, input0)

\* The result is the input before the suffix, with the remainder and the
\* match of the parser as its value.
backward_search(limit, p, input0) == backward_search_loop(1, limit, p, input0)

(***************************************************************************)
(* The offset of the newest cross-reference section: parse/xref.rs,        *)
(* startxref_tail.  The offset is kept as its decimal digits.              *)
(***************************************************************************)
STARTXREF == <<115, 116, 97, 114, 116, 120, 114, 101, 102>>

\* usize::MAX of a target with pointers of the given width.
USIZE_MAX(width) == IF width = 32 THEN U32_MAX ELSE U64_MAX

\* The keyword is searched from the end, the number behind it is read as a
\* u64 and converted to usize; the errors of the search and of the number
\* parser are passed on as they are.
startxref_tail(width, input0) ==
    LET found == backward_search(Len(STARTXREF) + 2048,
                                 [kind |-> "tag_no_case", pat |-> STARTXREF], input0)
        xref_pos == parse_unsigned(U64_MAX, multispace0(found.val[1]))
    IN  IF ~found.ok THEN found
        ELSE IF ~xref_pos.ok THEN xref_pos
        ELSE IF ~FitsIn(xref_pos.val, USIZE_MAX(width)) THEN Err("StartxrefInvalid")
        ELSE Ok(xref_pos.val, found.rest)

(***************************************************************************)
(* The encoder of a section and of its cross-reference stream:             *)
(* simple_encode/section.rs.  The writer is the sequence of the bytes      *)
(* written so far, its position their number (writer.rs, Vec<u8>).  A      *)
(* usize is its big-endian bytes without leading zero bytes, size the      *)
(* number of bytes of a usize in the build.                                *)
(***************************************************************************)
K_W == <<87>>

XREF_TYPE == <<88, 82, 101, 102>>

RECURSIVE usize_from(_)
usize_from(n) == IF n = 0 THEN <<>> ELSE usize_from(n \div 256) \o <<n % 256>>

\* usize::to_be_bytes
to_be_bytes(v, size) ==
    [i \in 1..size |-> IF i <= size - Len(v) THEN 0 ELSE v[i - (size - Len(v))]]

\* XrefEntry::type_num
type_num(entry) ==
    CASE entry.type = "Free" -> XREF_FREE
      [] entry.type = "Used" -> XREF_USED
      [] entry.type = "UsedCompressed" -> XREF_COMPRESSED
      [] entry.type = "Unsupported" -> entry.type_num

xref_to_tuple(entry) ==
    CASE entry.type = "Free" -> <<type_num(entry), entry.next_free, entry.generation>>
      [] entry.type = "Used" -> <<type_num(entry), entry.byte_offset, entry.generation>>
      [] entry.type = "UsedCompressed" ->
             <<type_num(entry), entry.containing_object, entry.index>>
      [] entry.type = "Unsupported" -> <<type_num(entry), entry.w1, entry.w2>>

\* &w[..w_length.min(size_of::<usize>())]: the leading bytes of the array.
leading_bytes(v, w_length, size) ==
    Take(to_be_bytes(v, size), IF w_length < size THEN w_length ELSE size)

\* The same field cut from the end of the array, where the value is.
trailing_bytes(v, w_length, size) ==
    Drop(to_be_bytes(v, size), size - (IF w_length < size THEN w_length ELSE size))

encode_xref_entry(w_length, entry, size) ==
    leading_bytes(xref_to_tuple(entry)[1], w_length[1], size)
        \o leading_bytes(xref_to_tuple(entry)[2], w_length[2], size)
        \o leading_bytes(xref_to_tuple(entry)[3], w_length[3], size)

RECURSIVE encode_xref_entries(_, _, _)
encode_xref_entries(w_length, entries, size) ==
    IF entries = <<>> THEN <<>>
    ELSE encode_xref_entry(w_length, Head(entries), size)
             \o encode_xref_entries(w_length, Tail(entries), size)

RECURSIVE insert_by_key(_, _)
insert_by_key(sorted, e) ==
    IF sorted = <<>> THEN <<e>>
    ELSE IF sorted[Len(sorted)].number <= e.number THEN Append(sorted, e)
    ELSE Append(insert_by_key(SubSeq(sorted, 1, Len(sorted) - 1), e),
                sorted[Len(sorted)])

RECURSIVE sort_by_key(_)
\* entries.sort_by_key(|o| o.number()): a stable sort.
sort_by_key(es) ==
    IF es = <<>> THEN <<>>
    ELSE insert_by_key(sort_by_key(SubSeq(es, 1, Len(es) - 1)), es[Len(es)])

\* Xref::new, and From<Vec<XrefEntry>> for Xref
Xref_new(entries) == [entries |-> sort_by_key(entries), kind |-> None]

\* Xref::new_stream
Xref_new_stream(entries, number, generation) ==
    [entries |-> sort_by_key(entries),
     kind |-> Some([number |-> number, generation |-> generation])]

\* Xref::highest_index: the number of the last of the sorted entries.
highest_index(o) ==
    IF o.entries = <<>> THEN 0 ELSE o.entries[Len(o.entries)].number

\* let w_values = [1usize, size_of::<usize>(), size_of::<usize>()]
w_values(size) == <<1, size, size>>

\* The indirect object that Encoder<Xref> builds and writes.
xref_indirect_object(o, size) ==
    [t |-> "Indirect",
     index |-> IF o.kind.some THEN o.kind.v.number ELSE highest_index(o) + 1,
     generation |-> IF o.kind.some THEN o.kind.v.generation ELSE 0,
     object |->
        [t |-> "Stream",
         dictionary |->
            (K_TYPE :> [t |-> "Name", name |-> XREF_TYPE])
            @@ (K_SIZE :> [t |-> "Integer", int |-> highest_index(o) + 1])
            @@ (K_W :> [t |-> "Array",
                        items |-> [i \in 1..3 |->
                                      [t |-> "Integer", int |-> w_values(size)[i]]]]),
         data |-> encode_xref_entries(w_values(size), o.entries, size)]]

\* Encoder<Xref>
write_to_xref(o, size, ord) == write_to(xref_indirect_object(o, size), ord)

\* keys.sort_unstable() on the keys of the objects of the section
RECURSIVE sorted_keys(_)
sorted_keys(keys) ==
    IF keys = {} THEN <<>>
    ELSE LET k == CHOOSE x \in keys : \A y \in keys : x <= y
         IN  <<k>> \o sorted_keys(keys \ {k})

\* The same keys from the greatest down.
RECURSIVE descending_keys(_)
descending_keys(keys) ==
    IF keys = {} THEN <<>>
    ELSE LET k == CHOOSE x \in keys : \A y \in keys : x >= y
         IN  <<k>> \o descending_keys(keys \ {k})

\* The loop over the keys: an entry with the position of the writer, then
\* the object.
RECURSIVE write_objects(_, _, _, _, _)
write_objects(objects, keys, writer, entries, ord) ==
    IF keys = <<>> THEN [writer |-> writer, xref_entries |-> entries]
    ELSE write_objects(objects, Tail(keys),
                       writer \o write_to(objects[Head(keys)], ord),
                       Append(entries,
                              UsedObject(Head(keys), usize_from(Len(writer)), <<>>)),
                       ord)

\* What follows the objects: the xref, then startxref and the position at
\* which the xref starts.
write_xref_and_startxref(written, size, ord) ==
    [xref_entries |-> written.xref_entries,
     start_xref |-> Len(written.writer),
     writer |-> written.writer
                    \o write_to_xref(Xref_new(written.xref_entries), size, ord)
                    \o STARTXREF \o <<LF>> \o to_string(Len(written.writer)) \o <<LF>>]

\* The section written with the keys in the opposite order.
write_to_section_descending(sec, writer, size, ord) ==
    write_xref_and_startxref(
        write_objects(sec, descending_keys(DOMAIN sec), writer, <<>>, ord), size, ord)

\* Encoder<PdfSection>: sec is the map of the objects of the section.
write_to_section(sec, writer, size, ord) ==
    write_xref_and_startxref(
        write_objects(sec, sorted_keys(DOMAIN sec), writer, <<>>, ord), size, ord)

(***************************************************************************)
(* The cross-reference stream: parse/xref.rs, xref_stream.                 *)
(***************************************************************************)
\* A variant that takes the widths that are there and 1 for the others.
w_entry_any_length(dict) ==
    LET o == DictGet(dict, K_W)
    IN  IF ~o.some THEN Err("XrefInvalid(WEntry)")
        ELSE IF o.v.t # "Array" THEN Err("XrefInvalid(WEntry)")
        ELSE IF \E i \in 1..Len(o.v.items) : o.v.items[i].t # "Integer"
             THEN Err("XrefInvalid(WEntry)")
        ELSE IF \E i \in 1..Len(o.v.items) : o.v.items[i].int < 0
             THEN Err("XrefInvalid(WEntry)")
        ELSE Good([i \in 1..3 |-> IF i <= Len(o.v.items) THEN o.v.items[i].int ELSE 1])

\* The W entry of the dictionary as three usize, or the error.
w_entry(dict) ==
    LET o == DictGet(dict, K_W)
    IN  IF ~o.some THEN Err("XrefInvalid(WEntry)")
        ELSE IF o.v.t # "Array" THEN Err("XrefInvalid(WEntry)")
        ELSE IF \E i \in 1..Len(o.v.items) : o.v.items[i].t # "Integer"
             THEN Err("XrefInvalid(WEntry)")
        ELSE IF Len(o.v.items) # 3 THEN Err("XrefInvalid(WEntry)")
        ELSE IF \E i \in 1..3 : o.v.items[i].int < 0 THEN Err("XrefInvalid(WEntry)")
        ELSE Good([i \in 1..3 |-> o.v.items[i].int])

\* What xref_stream does with the stream of the indirect object.
xref_stream_of(indirect_obj, remainder) ==
    LET stream == indirect_obj.object
        data == filtered_data(stream)
        w == w_entry(stream.dictionary)
        entries == xref_stream_data(w.val, data.val)
    IN  IF ~data.ok THEN Err("StreamError")
        ELSE IF ~w.ok THEN w
        ELSE IF ~entries.ok
             THEN IF entries.err = "panic" THEN entries
                  ELSE Err("XrefInvalid(StreamContent)")
        ELSE Ok(Xref_new_stream(entries.val, indirect_obj.index,
                                indirect_obj.generation), remainder)

xref_stream(s) ==
    AndThen(indirect_object(s), LAMBDA obj :
    IF obj.val.t # "Indirect" THEN Err("XrefInvalid(StreamObject)")
    ELSE IF obj.val.object.t # "Stream" THEN Err("XrefInvalid(StreamObject)")
    ELSE xref_stream_of(obj.val, obj.rest))

(***************************************************************************)
(* The document assembler.  The revision loop is modelled from section 4.G *)
(* of the specification, on a file that is a start offset and a map from   *)
(* byte offsets to what is found there: a cross-reference section with the *)
(* dictionary of its trailer, or the bytes of an object.                   *)
(***************************************************************************)
NoChunk == [kind |-> "none"]

XrefChunk(entries, trailer) ==
    [kind |-> "xref", xref |-> [entries |-> entries, kind |-> "Table"],
     trailer |-> trailer]

BytesChunk(bytes) == [kind |-> "bytes", bytes |-> bytes]

ChunkAt(file, off) ==
    IF off \in DOMAIN file.chunks THEN file.chunks[off] ELSE NoChunk

RECURSIVE read_used_objects(_, _, _)
\* Step c: the indirect object at the byte offset of every Used entry, under
\* the number of the entry.
read_used_objects(file, es, objects) ==
    IF es = <<>> THEN Good(objects)
    ELSE IF ChunkAt(file, Head(es).byte_offset).kind # "bytes" THEN Err("Nom")
    ELSE AndThen(indirect_object(ChunkAt(file, Head(es).byte_offset).bytes), LAMBDA o :
         read_used_objects(file, Tail(es), DictInsert(objects, Head(es).number, o.val)))

RECURSIVE insert_children(_, _)
\* Every pair the object stream yields is inserted under its number.
insert_children(objects, children) ==
    IF children = <<>> THEN objects
    ELSE insert_children(DictInsert(objects, Head(children)[1], Head(children)[2]),
                         Tail(children))

\* The container of a compressed object: among the objects of the revision
\* being read, else among the revisions read before.
find_container(objects, secs, num) ==
    IF num \in DOMAIN objects THEN Some(objects[num]) ELSE RawPdf_object(secs, num)

IsStreamContainer(c) ==
    c.some /\ c.v.t = "Indirect" /\ c.v.object.t = "Stream"

RECURSIVE read_compressed_objects(_, _, _)
\* Step d: the children of the container of every UsedCompressed entry.
read_compressed_objects(es, objects, secs) ==
    IF es = <<>> THEN Good(objects)
    ELSE IF ~IsStreamContainer(find_container(objects, secs, Head(es).containing_object))
         THEN Err("MissingContainer")
    ELSE AndThen(object_stream(find_container(objects, secs,
                                              Head(es).containing_object).v.object),
                 LAMBDA children :
         read_compressed_objects(Tail(es), insert_children(objects, children.val), secs))

\* Steps a to d for the revision at offset off.
read_section(file, off, secs) ==
    IF ChunkAt(file, off).kind # "xref" THEN Err("Nom")
    ELSE AndThen(trailer_try_from(ChunkAt(file, off).trailer), LAMBDA trailer :
         AndThen(read_used_objects(file, used_objects(ChunkAt(file, off).xref), <<>>),
                 LAMBDA used :
         AndThen(read_compressed_objects(compressed_objects(ChunkAt(file, off).xref),
                                         used.val, secs), LAMBDA all :
         Good([objects |-> all.val, trailer |-> Some(trailer.val),
               xref |-> ChunkAt(file, off).xref]))))

\* Step f: the loop goes on when the trailer names a previous revision that
\* lies before the one just read.
follows_previous(trailer, off) ==
    trailer.previous.some /\ trailer.previous.v < off

\* One round of the revision loop, steps a to f.
ReadRevision ==
    /\ pc = "revision"
    /\ IF ~read_section(input, offset, sections).ok
       THEN /\ pc' = "error"
            /\ result' = read_section(input, offset, sections)
            /\ UNCHANGED <<offset, sections, offsets>>
       ELSE /\ sections' = Append(sections, read_section(input, offset, sections).val)
            /\ offsets' = Append(offsets, offset)
            /\ IF follows_previous(read_section(input, offset, sections).val.trailer.v,
                                   offset)
               THEN /\ offset' = read_section(input, offset,
                                              sections).val.trailer.v.previous.v
                    /\ pc' = "revision"
               ELSE /\ offset' = offset
                    /\ pc' = "done"
            /\ UNCHANGED result
    /\ UNCHANGED <<input, encoded>>

\* A call of RawPdf::object on the assembled document.
LookupObject ==
    /\ pc = "done"
    /\ \E num \in 0..4 :
         result' = [op |-> "object", num |-> num,
                    out |-> RawPdf_object(sections, num)]
    /\ pc' = "answered"
    /\ UNCHANGED <<input, encoded, offset, sections, offsets>>

\* A call of RawPdf::dereference on the assembled document.
Dereference ==
    /\ pc = "done"
    /\ \E index \in 0..4, generation \in 0..1 :
         result' = [op |-> "dereference",
                    reference |-> [t |-> "Reference", index |-> index,
                                   generation |-> generation],
                    out |-> dereference(sections,
                                        [t |-> "Reference", index |-> index,
                                         generation |-> generation])]
    /\ pc' = "answered"
    /\ UNCHANGED <<input, encoded, offset, sections, offsets>>

----------------------------------------------------------------------------
(* Inputs and the specification of the revision loop: chains of trailers.  *)

Integer(n) == [t |-> "Integer", int |-> n]

RootReference == [t |-> "Reference", index |-> 1, generation |-> 0]

BaseTrailer == DictInsert(DictInsert(EmptyDict, K_SIZE, Integer(1)), K_ROOT, RootReference)

\* What a trailer may hold under /Prev: an offset, before, at or behind any
\* revision of the file, a negative number, or something that is no number.
PrevObjects ==
    {Integer(n) : n \in (-1)..(MaxOffset + 1)} \cup {[t |-> "Name", name |-> <<65>>]}

ChainTrailers ==
    {BaseTrailer} \cup {DictInsert(BaseTrailer, K_PREVIOUS, p) : p \in PrevObjects}

ChainChunks == {NoChunk} \cup {XrefChunk(<<>>, d) : d \in ChainTrailers}

ChainFiles ==
    {[startxref |-> s, chunks |-> c] : s \in 0..MaxOffset,
                                       c \in [0..MaxOffset -> ChainChunks]}

InitRevisions ==
    /\ input \in ChainFiles
    /\ offset = input.startxref
    /\ pc = "revision"
    /\ sections = <<>>
    /\ offsets = <<>>
    /\ result = Good(<<>>)
    /\ encoded = <<>>

NextRevisions == ReadRevision

SpecRevisions == InitRevisions /\ [][NextRevisions]_vars /\ WF_vars(ReadRevision)

----------------------------------------------------------------------------
(* Inputs and the specification of the assembled document: files of one or *)
(* two revisions with objects, object streams and references.              *)

\* "number generation obj body endobj"
IndirectBytes(number, generation, body) ==
    to_string(number) \o <<SP>> \o to_string(generation) \o <<SP>> \o KW_OBJ
        \o <<LF>> \o body \o <<LF>> \o KW_ENDOBJ \o <<LF>>

\* "number generation R"
ReferenceBytes(number, generation) ==
    to_string(number) \o <<SP>> \o to_string(generation) \o <<SP, 82>>

\* An object stream of obj_count children with the payload as its data.
ObjStmBytes(obj_count, first_offset, payload) ==
    <<60, 60, 47, 84, 121, 112, 101, 47, 79, 98, 106, 83, 116, 109, 47, 78, 32>> \o to_string(obj_count)
        \o <<47, 70, 105, 114, 115, 116, 32>> \o to_string(first_offset)
        \o <<47, 76, 101, 110, 103, 116, 104, 32>> \o to_string(Len(payload)) \o <<GT, GT, LF>>
        \o KW_STREAM \o <<LF>> \o payload \o <<LF>> \o KW_ENDSTREAM

\* The pairs "3 0 " and the object 7 behind them.
OneChildPayload == <<51, 32, 48, 32, 55>>

\* The pairs "3 0 4 2 " and the objects 7 and 8 behind them.
TwoChildrenPayload == <<51, 32, 48, 32, 52, 32, 50, 32, 55, 32, 56>>

\* The chunks of a file in the order of their offsets, from offset 0.
AtOffsets(cs) == [o \in 0..(Len(cs) - 1) |-> cs[o + 1]]

\* An object of the older revision at offset 0 and its cross-reference
\* section at offset 1, an object of the newer revision at offset 2 and its
\* section at offset 3.  The number of an entry and the number in the header
\* of the object at its offset are chosen apart.
TwoRevisionFiles ==
    {[startxref |-> 3,
      chunks |-> AtOffsets(<<
                   BytesChunk(IndirectBytes(hA, gA, <<55>>)),
                   XrefChunk(<<FreeObject(0, 65535, 0), UsedObject(nA, 0, gA)>>,
                             BaseTrailer),
                   BytesChunk(IndirectBytes(hB, gB, bB)),
                   XrefChunk(<<UsedObject(nB, 2, gB)>>, tB)>>)] :
        hA \in 1..2, gA \in 0..1, nA \in 1..2,
        hB \in 1..2, gB \in 0..1, nB \in 1..2,
        bB \in {<<56>>, ReferenceBytes(1, 0)},
        tB \in {BaseTrailer, DictInsert(BaseTrailer, K_PREVIOUS, Integer(1))}}

\* Object 1 with a reference at offset 0, object 2, an object stream, at
\* offset 1, the cross-reference section at offset 2.  The section lists the
\* children of the stream as compressed objects.
ObjectStreamFiles ==
    {[startxref |-> 2,
      chunks |-> AtOffsets(<<
                   BytesChunk(IndirectBytes(1, 0, ReferenceBytes(k, 0))),
                   BytesChunk(IndirectBytes(2, 0, stm)),
                   XrefChunk(<<FreeObject(0, 65535, 0), UsedObject(1, 0, 0),
                               UsedObject(2, 1, 0)>> \o listed, BaseTrailer)>>)] :
        k \in {0, 2, 3, 4},
        stm \in {ObjStmBytes(1, 4, OneChildPayload),
                 ObjStmBytes(2, 8, TwoChildrenPayload)},
        listed \in {<<UsedCompressedObject(3, 2, 0)>>,
                    <<UsedCompressedObject(3, 2, 0), UsedCompressedObject(4, 2, 1)>>}}

AssembleFiles == TwoRevisionFiles \cup ObjectStreamFiles

InitAssemble ==
    /\ input \in AssembleFiles
    /\ offset = input.startxref
    /\ pc = "revision"
    /\ sections = <<>>
    /\ offsets = <<>>
    /\ result = Good(<<>>)
    /\ encoded = <<>>

NextAssemble == ReadRevision \/ LookupObject \/ Dereference

SpecAssemble == InitAssemble /\ [][NextAssemble]_vars

----------------------------------------------------------------------------
(* Inputs and the specification of the token parsers: bool_object,         *)
(* number_object, null_object and name_object on a token and what follows. *)

KeywordTokens == {TRUE_OBJECT, FALSE_OBJECT, NULL_OBJECT}

\* 1, -1, +12, 1.5, .5, 1. and -.5
NumberTokens == {<<49>>, <<45, 49>>, <<43, 49, 50>>, <<49, 46, 53>>, <<46, 53>>, <<49, 46>>, <<45, 46, 53>>}

\* /A, /#41 and the empty name
NameTokens == {<<47, 65>>, <<47, 35, 52, 49>>, <<47>>}

\* Whitespace of multispace0, a form feed and a null byte, delimiters, and
\* the regular bytes 'x' and '1'.
FollowBytes == {SP, LF, FF, 0, LP, SOL, 37, 93, 120, 49}

\* The tokens with what follows, and the inputs of the tests: falsee, afalse.
TokenInputs ==
    {tok \o tail : tok \in KeywordTokens \cup NumberTokens \cup NameTokens,
                   tail \in SeqsUpTo(FollowBytes, MaxTailLen)}
        \cup {<<102, 97, 108, 115, 101, 101>>, <<97, 102, 97, 108, 115, 101>>}

InitToken ==
    /\ pc = "token"
    /\ input \in TokenInputs
    /\ encoded = <<>>
    /\ result = None
    /\ offset = 0 /\ sections = <<>> /\ offsets = <<>>

ParseBool ==
    /\ pc = "token"
    /\ pc' = "done"
    /\ result' = [parser |-> "bool", r |-> bool_object(input)]
    /\ UNCHANGED <<input, encoded, asmVars>>

ParseNumber ==
    /\ pc = "token"
    /\ pc' = "done"
    /\ result' = [parser |-> "number", r |-> number_object(input)]
    /\ UNCHANGED <<input, encoded, asmVars>>

ParseNull ==
    /\ pc = "token"
    /\ pc' = "done"
    /\ result' = [parser |-> "null", r |-> null_object(input)]
    /\ UNCHANGED <<input, encoded, asmVars>>

ParseNameToken ==
    /\ pc = "token"
    /\ pc' = "done"
    /\ result' = [parser |-> "name", r |-> name_object(input)]
    /\ UNCHANGED <<input, encoded, asmVars>>

NextToken == ParseBool \/ ParseNumber \/ ParseNull \/ ParseNameToken

SpecToken == InitToken /\ [][NextToken]_vars

----------------------------------------------------------------------------
(* Inputs and the specification of xref_section: tables written from their *)
(* subsections.                                                            *)

KW_TRAILER == <<116, 114, 97, 105, 108, 101, 114>>

\* The rows "0000000000 65535 f" and "0000000017 00000 n".
XrefRows ==
    {[offset |-> <<48, 48, 48, 48, 48, 48, 48, 48, 48, 48>>, gen |-> <<54, 53, 53, 51, 53>>, free |-> TRUE],
     [offset |-> <<48, 48, 48, 48, 48, 48, 48, 48, 49, 55>>, gen |-> <<48, 48, 48, 48, 48>>, free |-> FALSE]}

\* The first object numbers 0 and 3, and the two greatest numbers of a u32.
XrefFirsts == {<<48>>, <<51>>, <<52, 50, 57, 52, 57, 54, 55, 50, 57, 52>>, U32_MAX}

Subsections ==
    {[first |-> f, rows |-> r] : f \in XrefFirsts, r \in SeqsUpTo(XrefRows, MaxCount)}

RECURSIVE Concat(_)
Concat(ss) == IF ss = <<>> THEN <<>> ELSE Head(ss) \o Concat(Tail(ss))

RowBytes(row) ==
    row.offset \o <<SP>> \o row.gen \o <<SP>>
        \o (IF row.free THEN <<102>> ELSE <<110>>) \o <<SP, LF>>

SubsectionBytes(sub) ==
    sub.first \o <<SP>> \o to_string(Len(sub.rows)) \o <<LF>>
        \o Concat([i \in 1..Len(sub.rows) |-> RowBytes(sub.rows[i])])

\* "xref", the subsections, and the keyword of the trailer behind them.
TableBytes(subs) ==
    KW_XREF \o <<LF>> \o Concat([i \in 1..Len(subs) |-> SubsectionBytes(subs[i])])
        \o KW_TRAILER

\* The tables of 1..n subsections.
TableInputs(n) ==
    {[subsections |-> subs, bytes |-> TableBytes(subs)] :
        subs \in SeqsUpTo(Subsections, n) \ {<<>>}}

InitTable ==
    /\ pc = "table"
    /\ input \in TableInputs(MaxSubsections)
    /\ encoded = <<>>
    /\ result = None
    /\ offset = 0 /\ sections = <<>> /\ offsets = <<>>

\* xref_section in a build with and in a build without overflow checks.
ParseTable ==
    /\ pc = "table"
    /\ pc' = "done"
    /\ \E build \in {"checked", "wrapping"} :
          result' = xref_section(build, input.bytes)
    /\ UNCHANGED <<input, encoded, asmVars>>

NextTable == ParseTable

SpecTable == InitTable /\ [][NextTable]_vars

----------------------------------------------------------------------------
(* Inputs and the specification of xref_stream_data: payloads written from *)
(* the fields of their records.                                            *)

\* Fields of the width n: of no byte, of one byte, of two bytes, and of
\* nine bytes, one byte more than a usize has.
FieldsOfWidth(n) ==
    CASE n = 0 -> {<<>>}
      [] n = 1 -> {<<0>>, <<7>>}
      [] n = 2 -> {<<0, 1>>, <<1, 0>>}
      [] n = 9 -> {<<0, 0, 0, 0, 0, 0, 0, 0, 1>>, <<1, 0, 0, 0, 0, 0, 0, 0, 2>>}

\* The type field of one byte: the three types and one that is none.
TypeFields(n) == IF n = 1 THEN {<<0>>, <<1>>, <<2>>, <<3>>} ELSE FieldsOfWidth(n)

StreamWidths == {<<w1, w2, w3>> : w1 \in {0, 1}, w2 \in {0, 1, 2, 9}, w3 \in {0, 1, 9}}

StreamRecords(w) ==
    {<<f1, f2, f3>> : f1 \in TypeFields(w[1]), f2 \in FieldsOfWidth(w[2]),
                      f3 \in FieldsOfWidth(w[3])}

\* The records one after the other and the bytes behind the last record:
\* none, or a byte that makes no record unless a record is one byte.
StreamDataInputs(w) ==
    {[w |-> w, records |-> rs, trailing |-> t] :
        rs \in SeqsUpTo(StreamRecords(w), MaxRecords), t \in {<<>>, <<5>>}}

RecordBytes(rs) == Concat([i \in 1..Len(rs) |-> rs[i][1] \o rs[i][2] \o rs[i][3]])

PayloadOf(in) == RecordBytes(in.records) \o in.trailing

InitStreamData ==
    /\ pc = "data"
    /\ \E w \in StreamWidths : input \in StreamDataInputs(w)
    /\ encoded = <<>>
    /\ result = None
    /\ offset = 0 /\ sections = <<>> /\ offsets = <<>>

ParseStreamData ==
    /\ pc = "data"
    /\ pc' = "done"
    /\ result' = xref_stream_data(input.w, PayloadOf(input))
    /\ UNCHANGED <<input, encoded, asmVars>>

NextStreamData == ParseStreamData

SpecStreamData == InitStreamData /\ [][NextStreamData]_vars

----------------------------------------------------------------------------
(* Inputs and the specification of the trailer projections: dictionaries   *)
(* with each entry absent, well formed or malformed.                       *)

\* The key /Info as a file writes it.
KEY_INFO == <<73, 110, 102, 111>>

TrailerReference(n) == [t |-> "Reference", index |-> n, generation |-> 0]

TrailerHexString(b) == [t |-> "HexString", hex |-> <<b>>]

\* The values an entry takes; None stands for an absent entry.
TrailerEntryValues(key) ==
    {None} \cup
    CASE key = K_SIZE -> {Some(Integer(0)), Some(Integer(3)), Some(Integer(-1)),
                          Some([t |-> "Name", name |-> <<65>>])}
      [] key = K_PREVIOUS -> {Some(Integer(2)), Some(Integer(-1)),
                              Some([t |-> "Name", name |-> <<65>>])}
      [] key = K_ROOT -> {Some(TrailerReference(1)), Some(TrailerReference(2)),
                          Some(Integer(1))}
      [] key = KEY_INFO -> {Some(TrailerReference(5)), Some(Integer(5))}
      [] key = K_INFO -> {Some(TrailerReference(6)), Some(Integer(6))}
      [] key = K_X_REF_STM -> {Some(Integer(7)), Some(Integer(-1)),
                               Some([t |-> "Name", name |-> <<65>>])}
      [] key = K_ID ->
             {Some([t |-> "Array", items |-> <<TrailerHexString(1), TrailerHexString(2)>>]),
              Some([t |-> "Array", items |-> <<TrailerHexString(1)>>]),
              Some([t |-> "Array", items |-> <<TrailerHexString(1), Integer(2)>>]),
              Some(TrailerHexString(1))}

\* The dictionary of a choice of values: the keys whose entry is present.
DictOf(choice) ==
    [k \in {key \in DOMAIN choice : choice[key].some} |-> choice[k].v]

TrailerInputs ==
    {DictOf(K_SIZE :> size @@ K_PREVIOUS :> previous @@ K_ROOT :> root
              @@ KEY_INFO :> info @@ K_INFO :> lower @@ K_ID :> id
              @@ K_X_REF_STM :> x_ref_stm) :
        size \in TrailerEntryValues(K_SIZE),
        previous \in TrailerEntryValues(K_PREVIOUS),
        root \in TrailerEntryValues(K_ROOT),
        info \in TrailerEntryValues(KEY_INFO),
        lower \in TrailerEntryValues(K_INFO),
        id \in TrailerEntryValues(K_ID),
        x_ref_stm \in TrailerEntryValues(K_X_REF_STM)}

InitTrailer ==
    /\ pc = "trailer"
    /\ input \in TrailerInputs
    /\ encoded = <<>>
    /\ result = None
    /\ offset = 0 /\ sections = <<>> /\ offsets = <<>>

\* Trailer::try_from on the dictionary of a cross-reference stream.
TryFromDictionary ==
    /\ pc = "trailer"
    /\ result' = [projection |-> "try_from", r |-> trailer_try_from(input)]
    /\ pc' = "done"
    /\ UNCHANGED <<input, encoded, asmVars>>

\* into_trailer on the dictionary after the keyword trailer.
IntoTrailer ==
    /\ pc = "trailer"
    /\ result' = [projection |-> "into_trailer", r |-> into_trailer(input)]
    /\ pc' = "done"
    /\ UNCHANGED <<input, encoded, asmVars>>

NextTrailer == TryFromDictionary \/ IntoTrailer

SpecTrailer == InitTrailer /\ [][NextTrailer]_vars

----------------------------------------------------------------------------
(* Inputs and the specification of object_stream: streams written from a   *)
(* list of numbered objects, the objects laid out behind the header in the *)
(* order of the pairs or against it.                                       *)

\* A numbered object and the bytes it is written as.
Members ==
    { [number |-> 3, object |-> Integer(999), text |-> <<57, 57, 57>>],
      [number |-> 12, object |-> [t |-> "Name", name |-> <<65>>], text |-> <<SOL, 65>>],
      [number |-> 7, object |-> [t |-> "Bool", bool |-> TRUE],
       text |-> <<116, 114, 117, 101>>] }

\* The place of the i-th member in the body: its own, or counted from the end.
BodySlot(in, i) == IF in.reversed THEN Len(in.members) + 1 - i ELSE i

\* The body: the texts in the order of their slots, each followed by a space.
BodyBytes(in) ==
    Concat([k \in 1..Len(in.members) |->
               in.members[BodySlot(in, k)].text \o <<SP>>])

\* The offset of the i-th member in the body: the lengths of the slots
\* before its slot.
RelativeOffset(in, i) ==
    Len(Concat([k \in 1..(BodySlot(in, i) - 1) |->
                   in.members[BodySlot(in, k)].text \o <<SP>>]))

HeaderBytes(in) ==
    Concat([i \in 1..Len(in.members) |->
               to_string(in.members[i].number) \o <<SP>>
                   \o to_string(RelativeOffset(in, i)) \o <<SP>>])
        \o [k \in 1..in.pad |-> SP]

PayloadBytes(in) == HeaderBytes(in) \o BodyBytes(in)

FilterName(n) == [t |-> "Name", name |-> n]

\* The stream of an input: the payload stored raw, or hexadecimal under
\* /Filter given as a name or as an array of one name.
StreamOfMembers(in) ==
    LET base == DictInsert(DictInsert(DictInsert(EmptyDict,
                    K_TYPE, FilterName(OBJECT_STREAM)),
                    K_STREAM_OBJECT_COUNT, Integer(in.n)),
                    K_FIRST, Integer(Len(HeaderBytes(in))))
        stored == IF in.filter = "raw" THEN PayloadBytes(in)
                  ELSE hex_encode(PayloadBytes(in)) \o <<GT>>
        withFilter ==
            IF in.filter = "raw" THEN base
            ELSE IF in.filter = "name"
                 THEN DictInsert(base, FILTER, FilterName(FILTER_ASCII_HEX))
            ELSE DictInsert(base, FILTER,
                     [t |-> "Array", items |-> <<FilterName(FILTER_ASCII_HEX)>>])
    IN  [dictionary |-> DictInsert(withFilter, K_LENGTH, Integer(Len(stored))),
         data |-> stored]

ObjectStreamInputs ==
    { in \in [members : SeqsUpTo(Members, MaxMembers), n : 0..MaxMembers,
              reversed : BOOLEAN, pad : 0..1, filter : {"raw", "name", "array"}] :
        in.n <= Len(in.members) }

InitObjectStream ==
    /\ pc = "objstm"
    /\ input \in ObjectStreamInputs
    /\ encoded = <<>>
    /\ result = None
    /\ offset = 0 /\ sections = <<>> /\ offsets = <<>>

\* object_stream on the stream written from the input.
ReadObjectStream ==
    /\ pc = "objstm"
    /\ result' = object_stream(StreamOfMembers(input))
    /\ pc' = "done"
    /\ UNCHANGED <<input, encoded, asmVars>>

NextObjectStream == ReadObjectStream

SpecObjectStream == InitObjectStream /\ [][NextObjectStream]_vars

----------------------------------------------------------------------------
(* Inputs and the specification of Stream::filtered_data: streams whose    *)
(* entry /Filter is absent, a name, or an array of names.                  *)

FILTER_ASCII_85 == <<65, 83, 67, 73, 73, 56, 53, 68, 101, 99, 111, 100, 101>>

FILTER_LZW == <<76, 90, 87, 68, 101, 99, 111, 100, 101>>

\* A name that is no filter.
NoFilterName == <<70, 111, 111>>

ChainNames == {FILTER_ASCII_HEX, FILTER_ASCII_85, FILTER_LZW, NoFilterName}

\* The digit 3, the letter g that is no digit, and the end mark.
ChainAlphabet == {51, 103, GT}

FilterEntries ==
    {None} \cup {Some(FilterName(n)) : n \in ChainNames}
        \cup {Some([t |-> "Array", items |-> [i \in 1..Len(ns) |-> FilterName(ns[i])]]) :
                  ns \in SeqsUpTo(ChainNames, MaxFilters)}

FilterInputs ==
    [entry : FilterEntries, data : SeqsUpTo(ChainAlphabet, MaxDataLen)]

\* The stream of an input.
StreamOfEntry(in) ==
    [dictionary |-> IF in.entry.some THEN DictInsert(EmptyDict, FILTER, in.entry.v)
                    ELSE EmptyDict,
     data |-> in.data]

\* The stream is kept in encoded: its stored bytes are state of the object.
InitFilter ==
    /\ pc = "filter"
    /\ input \in FilterInputs
    /\ encoded = StreamOfEntry(input)
    /\ result = None
    /\ offset = 0 /\ sections = <<>> /\ offsets = <<>>

\* Stream::filtered_data works on a copy of the stored bytes.
FilteredData ==
    /\ pc = "filter"
    /\ result' = filtered_data(encoded)
    /\ pc' = "done"
    /\ UNCHANGED <<input, encoded, asmVars>>

NextFilter == FilteredData

SpecFilter == InitFilter /\ [][NextFilter]_vars

----------------------------------------------------------------------------
(* Inputs and the specification of decode_ascii_hex: data of digits in     *)
(* both cases, a space, the end mark and a byte that is none of these.     *)

\* The digit 4, the letters a and B, a space, the end mark and the letter g.
AsciiHexAlphabet == {52, 97, 66, SP, GT, 103}

AsciiHexInputs == SeqsUpTo(AsciiHexAlphabet, MaxDataLen)

InitAsciiHex ==
    /\ pc = "hex"
    /\ input \in AsciiHexInputs
    /\ encoded = <<>>
    /\ result = None
    /\ offset = 0 /\ sections = <<>> /\ offsets = <<>>

DecodeAsciiHex ==
    /\ pc = "hex"
    /\ result' = decode_ascii_hex(input)
    /\ pc' = "done"
    /\ UNCHANGED <<input, encoded, asmVars>>

NextAsciiHex == DecodeAsciiHex

SpecAsciiHex == InitAsciiHex /\ [][NextAsciiHex]_vars

----------------------------------------------------------------------------
(* Inputs and the specification of backward_search: short inputs over two  *)
(* letters, one of them in both cases, and the input of the unit test.     *)

SearchAlphabet == {97, 65, 98}

SearchParsers ==
    [kind : {"tag", "tag_no_case"}, pat : {<<97>>, <<97, 98>>, <<98, 97>>}]

HELLO_WORLD == <<72, 101, 108, 108, 111, 32, 87, 111, 114, 108, 100, 33>>

WORLD == <<87, 111, 114, 108, 100>>

SearchInputs ==
    [limit : 0..MaxLimit, parser : SearchParsers,
     bytes : SeqsUpTo(SearchAlphabet, MaxSearchLen)]
        \cup [limit : {5, 6}, parser : {[kind |-> "tag", pat |-> WORLD]},
              bytes : {HELLO_WORLD}]

InitSearch ==
    /\ pc = "search"
    /\ input \in SearchInputs
    /\ encoded = <<>>
    /\ result = None
    /\ offset = 0 /\ sections = <<>> /\ offsets = <<>>

BackwardSearch ==
    /\ pc = "search"
    /\ result' = backward_search(input.limit, input.parser, input.bytes)
    /\ pc' = "done"
    /\ UNCHANGED <<input, encoded, asmVars>>

NextSearch == BackwardSearch

SpecSearch == InitSearch /\ [][NextSearch]_vars

----------------------------------------------------------------------------
(* Inputs and the specification of startxref_tail: ends of files written   *)
(* from an optional older keyword with its offset, the keyword, white      *)
(* space, the digits of the offset and what follows them.                  *)

\* "startxref 7" and a line feed
OlderStartxref == STARTXREF \o <<SP, 55, LF>>

\* The digits of the offset: none, small numbers, the largest u32 and the
\* largest u64 with their successors, and the number of the unit test.
OffsetDigits ==
    { <<>>, <<48>>, <<53, 53, 53>>, <<48, 48, 55>>, U32_MAX, AddDigits(U32_MAX, 1),
      U64_MAX, AddDigits(U64_MAX, 1), [i \in 1..31 |-> 57] }

\* Nothing, a line of letters, and the end-of-file marker.
AfterOffset == { <<>>, <<LF, 97, 115, 100, 102>>, <<LF, 37, 37, 69, 79, 70>> }

StartxrefInputs ==
    [older : BOOLEAN,
     keyword : {STARTXREF, <<83, 84, 65, 82, 84, 88, 82, 69, 70>>},
     space : {<<>>, <<SP>>, <<LF>>, <<CR, LF>>},
     digits : OffsetDigits,
     after : AfterOffset]

TailBytes(in) ==
    (IF in.older THEN OlderStartxref ELSE <<>>)
        \o in.keyword \o in.space \o in.digits \o in.after

InitStartxref ==
    /\ pc = "startxref"
    /\ input \in StartxrefInputs
    /\ encoded = <<>>
    /\ result = None
    /\ offset = 0 /\ sections = <<>> /\ offsets = <<>>

\* startxref_tail on a target with pointers of 32 or of 64 bits.
StartxrefTail ==
    /\ pc = "startxref"
    /\ \E width \in {32, 64} :
          result' = [width |-> width, r |-> startxref_tail(width, TailBytes(input))]
    /\ pc' = "done"
    /\ UNCHANGED <<input, encoded, asmVars>>

NextStartxref == StartxrefTail

SpecStartxref == InitStartxref /\ [][NextStartxref]_vars

----------------------------------------------------------------------------
(* Inputs and the specification of the encoders of strings and names: the *)
(* value is written, its length is computed, and the bytes are parsed.     *)

\* The letter A, a space, the solidus, the number sign and a parenthesis.
EncodeNameAlphabet == {65, SP, SOL, HASH, LP}

\* Parentheses, the backslash and the letter a.
EncodeStringAlphabet == {LP, RP, BSL, 97}

EncodeInputs ==
    {[t |-> "String", str |-> str] : str \in SeqsUpTo(EncodeStringAlphabet, MaxStrLen)}
        \cup {[t |-> "Name", name |-> n] : n \in SeqsUpTo(EncodeNameAlphabet, MaxNameLen)}

InitEncode ==
    /\ pc = "encode"
    /\ input \in EncodeInputs
    /\ encoded = <<>>
    /\ result = None
    /\ offset = 0 /\ sections = <<>> /\ offsets = <<>>

\* Encoder<CbString>: encoded_len and write_to, and string_object on the
\* bytes written.
EncodeString ==
    /\ pc = "encode"
    /\ input.t = "String"
    /\ encoded' = write_to_string(input.str)
    /\ result' = [len |-> encoded_len_string(input.str),
                  parsed |-> string_object(write_to_string(input.str))]
    /\ pc' = "done"
    /\ UNCHANGED <<input, asmVars>>

\* Encoder<Name>: encoded_len and write_to, and name_object on the bytes
\* written.
EncodeName ==
    /\ pc = "encode"
    /\ input.t = "Name"
    /\ encoded' = write_to_name(input.name)
    /\ result' = [len |-> encoded_len_name(input.name),
                  parsed |-> name_object(write_to_name(input.name))]
    /\ pc' = "done"
    /\ UNCHANGED <<input, asmVars>>

NextEncode == EncodeString \/ EncodeName

SpecEncode == InitEncode /\ [][NextEncode]_vars

-----------------------------------------------------------------------------
(* Inputs and the specification of the encoder of a section: a map from    *)
(* object numbers to indirect objects is written behind what the writer    *)
(* already holds.                                                          *)

\* %PDF and a line feed, as a header that the writer may already hold.
SectionHeader == <<37, 80, 68, 70, LF>>

SectionBodies ==
    { [t |-> "Integer", int |-> 7],
      [t |-> "String", str |-> <<97, LP>>],
      [t |-> "Array", items |-> <<[t |-> "Null"], [t |-> "Bool", bool |-> TRUE]>>] }

SectionObject(n, body) ==
    [t |-> "Indirect", index |-> n, generation |-> 0, object |-> body]

\* The object numbers that a section may use.
SectionNumbers == 1..MaxObjectNumber

RECURSIVE SectionMaps(_)
SectionMaps(numbers) ==
    IF numbers = {} THEN {<<>>}
    ELSE LET n == CHOOSE x \in numbers : \A y \in numbers : x >= y
         IN  SectionMaps(numbers \ {n})
             \cup {m @@ (n :> SectionObject(n, body)) :
                     m \in SectionMaps(numbers \ {n}), body \in SectionBodies}

\* size_of::<usize>() of a 32 bit and of a 64 bit build.
UsizeSizes == {4, 8}

XrefKeyOrders ==
    {<<K_TYPE, K_SIZE, K_W, K_LENGTH>>, <<K_LENGTH, K_W, K_SIZE, K_TYPE>>}

InitSection ==
    /\ pc = "section"
    /\ input \in {[sec |-> sec, writer |-> writer, size |-> size, ord |-> ord] :
                     sec \in SectionMaps(SectionNumbers),
                     writer \in {<<>>, SectionHeader},
                     size \in UsizeSizes, ord \in XrefKeyOrders}
    /\ encoded = input.writer
    /\ result = None
    /\ offset = 0 /\ sections = <<>> /\ offsets = <<>>

WriteSection ==
    /\ pc = "section"
    /\ LET out == write_to_section(input.sec, encoded, input.size, input.ord)
       IN  /\ encoded' = out.writer
           /\ result' = [xref_entries |-> out.xref_entries,
                         start_xref |-> out.start_xref]
    /\ pc' = "done"
    /\ UNCHANGED <<input, offset, sections, offsets>>

NextSection == WriteSection

SpecSection == InitSection /\ [][NextSection]_vars

-----------------------------------------------------------------------------
(* Inputs and the specification of hex_string_object: hexadecimal digits   *)
(* between the angle brackets.                                             *)

\* The digits 0, 1 and 9 and the letters A, F, a and f.
HexDigitAlphabet == {48, 49, 57, 65, 70, 97, 102}

HexStringInputs ==
    {<<LT>> \o ds \o <<GT>> : ds \in SeqsUpTo(HexDigitAlphabet, MaxHexDigits) \ {<<>>}}

InitHexString ==
    /\ pc = "hex"
    /\ input \in HexStringInputs
    /\ encoded = <<>>
    /\ result = None
    /\ offset = 0 /\ sections = <<>> /\ offsets = <<>>

ParseHexString ==
    /\ pc = "hex"
    /\ pc' = "done"
    /\ result' = hex_string_object(input)
    /\ UNCHANGED <<input, encoded, asmVars>>

NextHexString == ParseHexString

SpecHexString == InitHexString /\ [][NextHexString]_vars

-----------------------------------------------------------------------------
(* Inputs and the specification of xref_stream: the indirect object 7 0    *)
(* with a stream whose dictionary has /Type, a /W written from tokens or   *)
(* no /W, /Length and with or without a filter that is not supported.      *)

\* 1, -1, /A and 4294967296, which is no i32.
WTokens == {<<49>>, <<45, 49>>, <<47, 65>>, <<52, 50, 57, 52, 57, 54, 55, 50, 57, 54>>}

RECURSIVE JoinTokens(_)
JoinTokens(toks) ==
    IF toks = <<>> THEN <<>>
    ELSE IF Len(toks) = 1 THEN toks[1]
    ELSE toks[1] \o <<SP>> \o JoinTokens(Tail(toks))

\* No /W, a /W that is a single token, or a /W that is an array of tokens.
WShapes ==
    {[present |-> FALSE, array |-> FALSE, toks |-> <<>>]}
        \cup {[present |-> TRUE, array |-> FALSE, toks |-> <<tok>>] : tok \in WTokens}
        \cup {[present |-> TRUE, array |-> TRUE, toks |-> toks] :
                 toks \in SeqsUpTo(WTokens, MaxWLen)}

XrefStreamInputs ==
    {[w |-> w, filtered |-> f, data |-> d] :
        w \in WShapes, f \in BOOLEAN, d \in {<<>>, <<1, 5, 0>>, <<1, 5, 0, 0, 9>>}}

\* /W and its value as they are written in the dictionary.
WBytes(w) ==
    IF ~w.present THEN <<>>
    ELSE <<47, 87, 32>>
             \o (IF w.array THEN <<91>> \o JoinTokens(w.toks) \o <<93>> ELSE w.toks[1])

XrefStreamBytes(in) ==
    <<55, 32, 48, 32, 111, 98, 106, 10, 60, 60, 47, 84, 121, 112, 101, 32,
      47, 88, 82, 101, 102, 32>>
        \o WBytes(in.w)
        \o <<32, 47, 76, 101, 110, 103, 116, 104, 32>> \o to_string(Len(in.data))
        \o (IF in.filtered
            THEN <<32, 47, 70, 105, 108, 116, 101, 114, 32, 47, 76, 90, 87, 68,
                   101, 99, 111, 100, 101>>
            ELSE <<>>)
        \o <<62, 62, 115, 116, 114, 101, 97, 109, 10>>
        \o in.data
        \o <<10, 101, 110, 100, 115, 116, 114, 101, 97, 109, 10, 101, 110, 100,
             111, 98, 106, 10>>

InitXrefStream ==
    /\ pc = "xref_stream"
    /\ input \in XrefStreamInputs
    /\ encoded = XrefStreamBytes(input)
    /\ result = None
    /\ offset = 0 /\ sections = <<>> /\ offsets = <<>>

ParseXrefStream ==
    /\ pc = "xref_stream"
    /\ pc' = "done"
    /\ result' = xref_stream(encoded)
    /\ UNCHANGED <<input, encoded, asmVars>>

NextXrefStream == ParseXrefStream

SpecXrefStream == InitXrefStream /\ [][NextXrefStream]_vars

-----------------------------------------------------------------------------
(* Inputs and the specification of the round trip of a cross-reference     *)
(* stream: an Xref is written by the encoder, and the payload of the       *)
(* stream it builds is read by xref_stream_data with the widths of /W of   *)
(* its dictionary.                                                         *)

\* The values of the two fields of an entry: 0, 5 and 256.
XrefFieldValues == {<<>>, <<5>>, <<1, 0>>}

XrefEntryNumbers == {0, 1}

XrefEntriesToEncode ==
    {FreeObject(n, g, f) : n \in XrefEntryNumbers, g \in {<<>>, <<5>>}, f \in XrefFieldValues}
        \cup {UsedObject(n, b, g) :
                 n \in XrefEntryNumbers, b \in XrefFieldValues, g \in {<<>>, <<5>>}}
        \cup {UsedCompressedObject(n, c, i) :
                 n \in XrefEntryNumbers, c \in XrefFieldValues, i \in {<<>>, <<5>>}}
        \cup {Unsupported(n, <<3>>, a, b) :
                 n \in XrefEntryNumbers, a \in XrefFieldValues, b \in {<<>>, <<5>>}}

\* An Xref of up to n entries as Xref::new and Xref::new_stream make it.
XrefsToEncode(n) ==
    {Xref_new(es) : es \in SeqsUpTo(XrefEntriesToEncode, n)}
        \cup {Xref_new_stream(es, 9, 0) : es \in SeqsUpTo(XrefEntriesToEncode, n)}

InitXrefRoundTrip ==
    /\ pc = "xref"
    /\ input \in {[xref |-> o, size |-> size, ord |-> ord] :
                     o \in XrefsToEncode(MaxRecords), size \in UsizeSizes, ord \in XrefKeyOrders}
    /\ encoded = <<>>
    /\ result = None
    /\ offset = 0 /\ sections = <<>> /\ offsets = <<>>

\* Encoder<Xref>, then xref_stream_data on the payload with the widths of
\* the dictionary that was written.
EncodeAndReadXref ==
    /\ pc = "xref"
    /\ pc' = "done"
    /\ encoded' = write_to_xref(input.xref, input.size, input.ord)
    /\ LET stream == xref_indirect_object(input.xref, input.size).object
           w == [i \in 1..3 |-> stream.dictionary[K_W].items[i].int]
       IN  result' = [w |-> w, data |-> stream.data,
                      decoded |-> xref_stream_data(w, stream.data)]
    /\ UNCHANGED <<input, asmVars>>

NextXrefRoundTrip == EncodeAndReadXref

SpecXrefRoundTrip == InitXrefRoundTrip /\ [][NextXrefRoundTrip]_vars

-----------------------------------------------------------------------------
(* Inputs and the specification of the encoder of streams: a stream whose  *)
(* dictionary has no /Length, a /Length that is not the length of the      *)
(* payload or is no integer, with or without another entry.                *)

StreamDictionaries ==
    {d @@ e : d \in {<<>>, K_LENGTH :> Integer(0), K_LENGTH :> Integer(99),
                     K_LENGTH :> [t |-> "Name", name |-> <<65>>]},
              e \in {<<>>, K_TYPE :> Integer(1)}}

StreamsToEncode ==
    {[t |-> "Stream", dictionary |-> d, data |-> data] :
        d \in StreamDictionaries, data \in SeqsUpTo({LF, 101, 120}, MaxStreamLen)}

StreamKeyOrders == {<<K_TYPE, K_LENGTH>>, <<K_LENGTH, K_TYPE>>}

InitEncodeStream ==
    /\ pc = "encode_stream"
    /\ input \in {[s |-> s, ord |-> ord] : s \in StreamsToEncode, ord \in StreamKeyOrders}
    /\ encoded = <<>>
    /\ result = None
    /\ offset = 0 /\ sections = <<>> /\ offsets = <<>>

\* Encoder<Stream>::write_to into an empty Vec<u8>; result is the stream
\* that was passed, as it is after the call.
EncodeStream ==
    /\ pc = "encode_stream"
    /\ pc' = "done"
    /\ LET out == write_to_stream_on(input.s, encoded, input.ord)
       IN  /\ encoded' = out.writer
           /\ result' = [s |-> out.s]
    /\ UNCHANGED <<input, asmVars>>

NextEncodeStream == EncodeStream

SpecEncodeStream == InitEncodeStream /\ [][NextEncodeStream]_vars

----------------------------------------------------------------------------
(* Inputs and the specification of string_object.                          *)

StrAlphabet == {LP, RP, BSL, 97}

StringInputs ==
    {<<LP>> \o b \o t : b \in SeqsUpTo(StrAlphabet, MaxStrLen),
                        t \in {<<>>, <<RP>>, <<RP, SP>>, <<RP, 98>>}}

InitString ==
    /\ pc = "string"
    /\ input \in StringInputs
    /\ encoded = <<>>
    /\ result = None
    /\ offset = 0 /\ sections = <<>> /\ offsets = <<>>

ParseString ==
    /\ pc = "string"
    /\ pc' = "done"
    /\ result' = string_object(input)
    /\ UNCHANGED <<input, encoded, asmVars>>

NextString == ParseString

SpecString == InitString /\ [][NextString]_vars

----------------------------------------------------------------------------
(* Inputs and the specification of name_object.                            *)

\* 'A', '4', '2' (hex digits), 'b' (lower-case hex digit), 'G' (regular, no
\* hex digit) and '#'
NameAlphabet == {65, 52, 50, 98, 71, HASH}

\* what follows the name: nothing, a space, a delimiter, a form feed, a line
\* feed and another token
NameTails == {<<>>, <<SP>>, <<LP>>, <<FF>>, <<LF, 65>>}

NameInputs ==
    {<<SOL>> \o b \o t : b \in SeqsUpTo(NameAlphabet, MaxNameLen), t \in NameTails}

InitName ==
    /\ pc = "name"
    /\ input \in NameInputs
    /\ encoded = <<>>
    /\ result = None
    /\ offset = 0 /\ sections = <<>> /\ offsets = <<>>

ParseName ==
    /\ pc = "name"
    /\ pc' = "done"
    /\ result' = name_object(input)
    /\ UNCHANGED <<input, encoded, asmVars>>

NextName == ParseName

SpecName == InitName /\ [][NextName]_vars

\* the maximal run of regular bytes at the start of s
(***************************************************************************)
(* Inputs and the specification of stream_object.                          *)
(***************************************************************************)
\* The text of a dictionary whose only entry is /Length n.
LengthDict(n) == <<LT, LT, SOL>> \o K_LENGTH \o <<SP>> \o to_string(n) \o <<GT, GT>>

StreamDicts ==
    {LengthDict(n) : n \in -1..MaxStreamLen}
        \cup {<<LT, LT, GT, GT>>, <<LT, LT, SOL>> \o K_LENGTH \o <<SOL, 65, GT, GT, LF>>}

StreamInputs ==
    {d \o KW_STREAM \o e \o b \o c \o t :
        d \in StreamDicts,
        e \in {<<LF>>, <<CR, LF>>, <<CR>>},
        b \in SeqsUpTo({LF, CR, 120}, MaxStreamLen + 2),
        c \in {KW_ENDSTREAM, <<>>},
        t \in {<<>>, <<SP>>, <<120>>, <<LF, 120>>}}

InitStream ==
    /\ pc = "stream"
    /\ input \in StreamInputs
    /\ encoded = <<>>
    /\ result = None
    /\ offset = 0
    /\ sections = <<>>
    /\ offsets = <<>>

ParseStream ==
    /\ pc = "stream"
    /\ pc' = "done"
    /\ result' = stream_object(input)
    /\ UNCHANGED <<input, encoded, asmVars>>

NextStream == ParseStream

SpecStream == InitStream /\ [][NextStream]_vars

(***************************************************************************)
(* The object round trip: an object is encoded by SimpleEncoder and the    *)
(* bytes are parsed by the object parser.                                  *)
(***************************************************************************)
KeyA == <<65>>

KeyB == <<66>>

\* The orders in which a dictionary over the keys /A and /B may be iterated.
KeyOrders == {<<KeyA, KeyB>>, <<KeyB, KeyA>>}

RtScalars ==
    {[t |-> "Null"], [t |-> "Bool", bool |-> TRUE], [t |-> "Bool", bool |-> FALSE],
     [t |-> "Integer", int |-> 0], [t |-> "Integer", int |-> -7], [t |-> "Integer", int |-> 12]}

RtStrings ==
    {[t |-> "String", str |-> b] : b \in {<<>>, <<97>>, <<LP>>, <<RP>>, <<LP, RP>>, <<BSL>>}}
        \cup {[t |-> "HexString", hex |-> b] : b \in {<<>>, <<31>>, <<171, 0>>}}
        \cup {[t |-> "Name", name |-> b] : b \in {<<65>>, <<65, SP, 66>>}}

RtReferences ==
    {[t |-> "Reference", index |-> i, generation |-> g] : i \in {1, 2}, g \in {0, 1}}

RtLeaves == RtScalars \cup RtStrings \cup RtReferences

\* The leaves that go into arrays, dictionaries and indirect objects.
RtItems ==
    {[t |-> "Null"], [t |-> "Bool", bool |-> TRUE], [t |-> "Integer", int |-> 12],
     [t |-> "String", str |-> <<97>>], [t |-> "HexString", hex |-> <<31>>]}

RtArrays == {[t |-> "Array", items |-> a] : a \in SeqsUpTo(RtItems, MaxArrayLen)}

RtDictionaries ==
    {[t |-> "Dictionary", dict |-> d] :
        d \in {EmptyDict} \cup {DictInsert(EmptyDict, KeyA, x) : x \in RtItems}
                \cup {DictInsert(DictInsert(EmptyDict, KeyA, x), KeyB, [t |-> "Null"]) :
                         x \in RtItems}}

RtIndirects ==
    {[t |-> "Indirect", index |-> 3, generation |-> g, object |-> x] :
        g \in {0, 1}, x \in RtItems \cup {[t |-> "Array", items |-> <<[t |-> "Integer", int |-> 12]>>]}}

RoundTripObjects == RtLeaves \cup RtArrays \cup RtDictionaries \cup RtIndirects

InitRoundTrip ==
    /\ pc = "encode"
    /\ input \in RoundTripObjects
    /\ encoded = <<>>
    /\ result = None
    /\ offset = 0
    /\ sections = <<>>
    /\ offsets = <<>>

\* SimpleEncoder::write_to into an empty Vec<u8>.
Encode ==
    /\ pc = "encode"
    /\ pc' = "parse"
    /\ \E ord \in KeyOrders : encoded' = write_to(input, ord)
    /\ UNCHANGED <<input, result, asmVars>>

\* The object parser on the bytes written.
ParseEncoded ==
    /\ pc = "parse"
    /\ pc' = "done"
    /\ result' = object(encoded)
    /\ UNCHANGED <<input, encoded, asmVars>>

NextRoundTrip == Encode \/ ParseEncoded

SpecRoundTrip == InitRoundTrip /\ [][NextRoundTrip]_vars

RegularRun(s) ==
    LET n == CHOOSE k \in 0..Len(s) :
                 /\ \A i \in 1..k : is_regular(s[i])
                 /\ k = Len(s) \/ ~is_regular(s[k + 1])
    IN  Take(s, n)

HexValue(c) == IF c \in 48..57 THEN c - 48 ELSE IF c \in 65..70 THEN c - 55 ELSE c - 87

RECURSIVE NameEscapesOk(_)
\* every "#" of the run is followed, inside the run, by two hex digits
NameEscapesOk(run) ==
    IF run = <<>> THEN TRUE
    ELSE IF Head(run) = HASH
         THEN /\ Len(run) >= 3
              /\ IsHexDigit(run[2]) /\ IsHexDigit(run[3])
              /\ NameEscapesOk(Drop(run, 3))
         ELSE NameEscapesOk(Tail(run))

RECURSIVE NameDecoded(_)
\* the run with every #HH replaced by the byte of that value
NameDecoded(run) ==
    IF run = <<>> THEN <<>>
    ELSE IF Head(run) = HASH
         THEN <<16 * HexValue(run[2]) + HexValue(run[3])>> \o NameDecoded(Drop(run, 3))
         ELSE <<Head(run)>> \o NameDecoded(Tail(run))

\* C10: name_object takes the maximal run of regular bytes after "/" and
\* returns it with every #HH replaced by that byte and every other byte
\* unchanged; a "#" that is not followed by two hex digits inside the name
\* makes the parse fail with InvalidName.
C10_NameDecodesOrInvalidName ==
    (pc = "done" /\ input # <<>> /\ Head(input) = SOL) =>
        LET run == RegularRun(Tail(input))
        IN  IF NameEscapesOk(run)
            THEN result.ok /\ result.val = NameDecoded(run)
            ELSE ~result.ok /\ result.err = "InvalidName"

\* The same statement for the names that a form feed does not follow.
C10_ExceptBeforeFormFeed ==
    (pc = "done" /\ input # <<>> /\ Head(input) = SOL) =>
        LET run == RegularRun(Tail(input))
            after == Drop(Tail(input), Len(run))
        IN  IF after # <<>> /\ Head(after) = FF THEN ~result.ok /\ result.err = "Nom"
            ELSE IF NameEscapesOk(run)
            THEN result.ok /\ result.val = NameDecoded(run)
            ELSE ~result.ok /\ result.err = "InvalidName"

\* what the run has done once it is over
Done == pc = "done"

RECURSIVE ClosingParen(_, _, _)
\* The index in body b of the first unescaped ")" that no earlier unescaped
\* "(" matches, scanning from index i at nesting depth d; 0 when there is
\* none.  The byte after a backslash is skipped whatever it is.
ClosingParen(b, i, d) ==
    IF i > Len(b) THEN 0
    ELSE IF b[i] = BSL THEN ClosingParen(b, i + 2, d)
    ELSE IF b[i] = LP THEN ClosingParen(b, i + 1, d + 1)
    ELSE IF b[i] = RP THEN IF d = 0 THEN i ELSE ClosingParen(b, i + 1, d - 1)
    ELSE ClosingParen(b, i + 1, d)

\* C9: string_object ends the literal at the first unescaped ")" that no
\* earlier unescaped "(" matches (the byte after a backslash never counts as a
\* parenthesis), stores exactly the raw bytes between the outer parentheses,
\* and rejects an input whose parentheses never close.
C9_StringEndsAtMatchingParen ==
    (pc = "done" /\ input # <<>> /\ Head(input) = LP) =>
        LET body == Tail(input)
            e == ClosingParen(body, 1, 0)
        IN  IF e = 0 THEN ~result.ok
            ELSE /\ result.ok
                 /\ result.val = [t |-> "String", str |-> Take(body, e - 1)]
                 /\ result.rest = multispace0(Drop(body, e))

\* a string with a nested pair and an escaped parenthesis was parsed
C9_Witness ==
    /\ pc = "done"
    /\ input = <<LP, LP, BSL, RP, RP, RP>>
    /\ result.ok
    /\ result.val.str = <<LP, BSL, RP, RP>>

(***************************************************************************)
(* stream_object by /Length.                                               *)
(***************************************************************************)
\* The keyword `endstream` at the start of r, after an optional LF or CR LF,
\* ended as a keyword is: by the end of the input, white space or a delimiter.
EndstreamKeywordAt(r) ==
    \E eol \in {<<>>, <<LF>>, <<CR, LF>>} :
        /\ StartsWith(r, eol \o KW_ENDSTREAM)
        /\ LET x == Drop(r, Len(eol) + Len(KW_ENDSTREAM))
           IN  x = <<>> \/ is_delimiter(x[1]) \/ x[1] \in {SP, TAB, CR, LF}

\* C8: when /Length is a non-negative integer n and the n bytes after the one
\* LF or CR LF that ends the `stream` line are followed by an optional end of
\* line and the keyword `endstream`, stream_object returns exactly those n
\* bytes (further newline bytes after the first line end are payload); when a
\* CR that no LF follows comes after `stream`, the parse fails.
C8_StreamPayloadByLength ==
    pc = "done" =>
        /\ \A n \in 0..MaxStreamLen : \A eol \in {<<LF>>, <<CR, LF>>} :
              LET head == LengthDict(n) \o KW_STREAM \o eol
              IN  (/\ StartsWith(input, head)
                   /\ Len(input) >= Len(head) + n
                   /\ EndstreamKeywordAt(Drop(input, Len(head) + n)))
                  => /\ result.ok
                     /\ result.val.data = SubSeq(input, Len(head) + 1, Len(head) + n)
        /\ \A d \in StreamDicts :
              (/\ StartsWith(input, d \o KW_STREAM \o <<CR>>)
               /\ ~StartsWith(input, d \o KW_STREAM \o <<CR, LF>>))
              => ~result.ok

\* The /Length 94 scenario in small: CR LF ends the `stream` line and the LF
\* after it is the first of the two payload bytes.
C8_Witness ==
    /\ pc = "done"
    /\ input = LengthDict(2) \o KW_STREAM \o <<CR, LF, LF, 120>> \o KW_ENDSTREAM
    /\ result.ok
    /\ result.val.data = <<LF, 120>>

\* A lone CR after `stream` has been rejected.
C8_WitnessLoneCR ==
    /\ pc = "done"
    /\ input = LengthDict(1) \o KW_STREAM \o <<CR, 120>> \o KW_ENDSTREAM
    /\ ~result.ok

(***************************************************************************)
(* Parsing never aborts the process.                                       *)
(***************************************************************************)
\* C3: no parsing operation aborts the process; stream_object, also on a
\* dictionary whose /Length is a negative integer, ends in a result or in a
\* returned error, never in a panic.
C3_StreamObjectNeverPanics ==
    pc = "done" => (result.ok \/ result.err # "panic")

(***************************************************************************)
(* The round trip at object level.                                         *)
(***************************************************************************)
\* C2: for every object built from Null, Bool, Integer, String, HexString,
\* Name, Array, Dictionary, Reference and Indirect, the object parser accepts
\* the bytes SimpleEncoder writes for it and returns an object equal to the
\* original.
C2_RoundTrip ==
    pc = "done" => (result.ok /\ result.val.t = input.t /\ result.val = input)

RECURSIVE RoundTrips(_)
\* The objects of the model that do come back: no name, no reference, no
\* dictionary with an entry, no empty hex string, and no string with a
\* backslash or with a parenthesis that the encoder escapes.
RoundTrips(o) ==
    CASE o.t \in {"Null", "Bool", "Integer"} -> TRUE
      [] o.t = "String" ->
             o.str = <<LP, RP>> \/ \A i \in 1..Len(o.str) : o.str[i] \notin {LP, RP, BSL}
      [] o.t = "HexString" -> o.hex # <<>>
      [] o.t \in {"Name", "Reference"} -> FALSE
      [] o.t = "Array" -> \A i \in 1..Len(o.items) : RoundTrips(o.items[i])
      [] o.t = "Dictionary" -> o.dict = EmptyDict
      [] o.t = "Indirect" -> RoundTrips(o.object)

\* What holds in place of C2 on the objects of the model: the round trip
\* succeeds exactly on the objects singled out by RoundTrips.
C2_RoundTripExactlyWhen ==
    pc = "done" =>
        (RoundTrips(input) <=> (result.ok /\ result.val.t = input.t /\ result.val = input))

----------------------------------------------------------------------------
(* The revision loop.                                                      *)

\* The trailer at offset off holds under /Prev a number that is an offset
\* before off.
HasEarlierPrev(file, off) ==
    /\ K_PREVIOUS \in DOMAIN ChunkAt(file, off).trailer
    /\ ChunkAt(file, off).trailer[K_PREVIOUS].t = "Integer"
    /\ ChunkAt(file, off).trailer[K_PREVIOUS].int >= 0
    /\ ChunkAt(file, off).trailer[K_PREVIOUS].int < off

\* Every revision read after another one is the one the trailer of that
\* other names under /Prev, and lies before it.
ReadOnlyEarlierPrevious ==
    /\ \A i \in 1..(Len(offsets) - 1) :
         /\ HasEarlierPrev(input, offsets[i])
         /\ offsets[i + 1] = ChunkAt(input, offsets[i]).trailer[K_PREVIOUS].int
         /\ offsets[i + 1] < offsets[i]
    /\ (pc = "revision" /\ offsets # <<>>) =>
         /\ HasEarlierPrev(input, offsets[Len(offsets)])
         /\ offset = ChunkAt(input, offsets[Len(offsets)]).trailer[K_PREVIOUS].int
         /\ offset < offsets[Len(offsets)]

----------------------------------------------------------------------------
(* Lookups in the assembled document.                                      *)

\* The revisions, by their place in the list, whose object map has num.
RevisionsWith(num) == {i \in 1..Len(sections) : num \in DOMAIN sections[i].objects}

\* C5: RawPdf::object(num) returns the object stored under num in the first
\* revision of the list, the newest, whose object map contains num, never
\* the object of an older revision while a newer one contains num, and None
\* exactly when no revision contains num.
C5_ObjectOfNewestRevision ==
    (pc = "answered" /\ result.op = "object") =>
        /\ result.out.some <=> RevisionsWith(result.num) # {}
        /\ result.out.some =>
             \E i \in RevisionsWith(result.num) :
                /\ \A j \in RevisionsWith(result.num) : i <= j
                /\ result.out.v = sections[i].objects[result.num]

\* Both revisions have the number, with different objects, and the lookup
\* has answered.
C5_Witness ==
    /\ pc = "answered"
    /\ result.op = "object"
    /\ Len(sections) = 2
    /\ RevisionsWith(result.num) = {1, 2}
    /\ sections[1].objects[result.num] # sections[2].objects[result.num]
    /\ result.out = Some(sections[1].objects[result.num])

\* Revision sec holds an indirect object whose own number and generation are
\* those of the reference, under key.
HoldsMatching(sec, key, reference) ==
    /\ key \in DOMAIN sec.objects
    /\ sec.objects[key].t = "Indirect"
    /\ sec.objects[key].index = reference.index
    /\ sec.objects[key].generation = reference.generation

\* The numbers under which the revisions store objects.
Keys == UNION {DOMAIN sections[i].objects : i \in 1..Len(sections)}

\* C4: RawPdf::dereference returns the inner object of the first indirect
\* object, in the order of the revisions, whose own number and generation
\* are those of the reference, and None exactly when no revision holds such
\* an indirect object.
C4_DereferenceMatchesIdentity ==
    (pc = "answered" /\ result.op = "dereference") =>
        /\ result.out.some <=>
             \E i \in 1..Len(sections), key \in Keys :
                HoldsMatching(sections[i], key, result.reference)
        /\ result.out.some =>
             \E i \in 1..Len(sections), key \in Keys :
                /\ HoldsMatching(sections[i], key, result.reference)
                /\ result.out.v = sections[i].objects[key].object
                /\ \A j \in 1..(i - 1), other \in Keys :
                      ~HoldsMatching(sections[j], other, result.reference)

RECURSIVE References(_)
\* The references that occur in an object.
References(o) ==
    CASE o.t = "Reference" -> {o}
      [] o.t = "Array" -> UNION {References(o.items[i]) : i \in DOMAIN o.items}
      [] o.t = "Dictionary" -> UNION {References(o.dict[k]) : k \in DOMAIN o.dict}
      [] o.t = "Stream" ->
            UNION {References(o.dictionary[k]) : k \in DOMAIN o.dictionary}
      [] o.t = "Indirect" -> References(o.object)
      [] OTHER -> {}

RECURSIVE ChainOf(_, _)
\* The offsets of the cross-reference sections of a file from the one at
\* off backwards along /Prev.
ChainOf(file, off) ==
    IF ChunkAt(file, off).kind # "xref" THEN {}
    ELSE IF HasEarlierPrev(file, off)
         THEN {off} \cup ChainOf(file, ChunkAt(file, off).trailer[K_PREVIOUS].int)
    ELSE {off}

\* The cross-reference sections of a file.
XrefsOf(file) == {file.chunks[o].xref : o \in ChainOf(file, file.startxref)}

EntriesOf(xref) == {xref.entries[i] : i \in DOMAIN xref.entries}

\* The object a Used entry points at.
EntryObject(file, e) ==
    IF ChunkAt(file, e.byte_offset).kind = "bytes"
    THEN indirect_object(ChunkAt(file, e.byte_offset).bytes)
    ELSE Err("Nom")

\* The entry points at an indirect object of its number and generation.
UsedWellFormed(file, e) ==
    /\ EntryObject(file, e).ok
    /\ EntryObject(file, e).val.t = "Indirect"
    /\ EntryObject(file, e).val.index = e.number
    /\ EntryObject(file, e).val.generation = e.generation

\* The children of the object stream a Used entry points at, none when the
\* object is no object stream.
ChildrenOf(file, e) ==
    IF /\ UsedWellFormed(file, e)
       /\ EntryObject(file, e).val.object.t = "Stream"
       /\ object_stream(EntryObject(file, e).val.object).ok
    THEN object_stream(EntryObject(file, e).val.object).val
    ELSE <<>>

\* The objects written in a file: those of the Used entries and the
\* children of the object streams among them.
FileObjects(file) ==
    UNION {{EntryObject(file, e).val} \cup
           {ChildrenOf(file, e)[i][2] : i \in DOMAIN ChildrenOf(file, e)} :
             e \in {u \in UNION {EntriesOf(x) : x \in XrefsOf(file)} :
                      IsUsed(u) /\ UsedWellFormed(file, u)}}

\* A well-formed file: every Used entry points at the indirect object of its
\* number and generation; every UsedCompressed entry names an object stream
\* of the same section and the place of its number among the children; every
\* child of an object stream is listed; every reference names an object that
\* some section lists, as Used with the generation of the reference, as
\* UsedCompressed, or as Free.
WellFormed(file) ==
    /\ \A x \in XrefsOf(file) : \A e \in EntriesOf(x) :
         /\ IsUsed(e) => UsedWellFormed(file, e)
         /\ IsCompressed(e) =>
              \E c \in EntriesOf(x) :
                 /\ IsUsed(c)
                 /\ c.number = e.containing_object
                 /\ e.index + 1 \in DOMAIN ChildrenOf(file, c)
                 /\ ChildrenOf(file, c)[e.index + 1][1] = e.number
         /\ IsUsed(e) =>
              \A i \in DOMAIN ChildrenOf(file, e) :
                 \E l \in EntriesOf(x) :
                    /\ IsCompressed(l)
                    /\ l.number = ChildrenOf(file, e)[i][1]
                    /\ l.containing_object = e.number
                    /\ l.index = i - 1
    /\ \A o \in FileObjects(file) : \A r \in References(o) :
         \E x \in XrefsOf(file) : \E e \in EntriesOf(x) :
            /\ e.number = r.index
            /\ \/ IsFree(e)
               \/ IsUsed(e) /\ e.generation = r.generation
               \/ IsCompressed(e) /\ r.generation = 0

\* The cross-reference section of some revision marks the number free.
MarkedFree(num) ==
    \E i \in 1..Len(sections) : \E e \in EntriesOf(sections[i].xref) :
       IsFree(e) /\ e.number = num

\* C6: in the document assembled from a well-formed file, every reference
\* that occurs in a parsed object dereferences to an object or names a
\* number that a cross-reference section marks free, be the object it names
\* listed as Used or as UsedCompressed.
C6_ReferencesResolveOrFree ==
    (pc = "done" /\ WellFormed(input)) =>
        \A i \in 1..Len(sections) : \A key \in DOMAIN sections[i].objects :
           \A r \in References(sections[i].objects[key]) :
              dereference(sections, r).some \/ MarkedFree(r.index)

\* C7: every key of the object map of a revision is the number of a Used or
\* UsedCompressed entry of the cross-reference section of that revision,
\* the keys of the children of object streams included.
C7_KeysAreListedEntries ==
    \A i \in 1..Len(sections) : \A key \in DOMAIN sections[i].objects :
       \E e \in EntriesOf(sections[i].xref) :
          (IsUsed(e) \/ IsCompressed(e)) /\ e.number = key

----------------------------------------------------------------------------
(* Termination of tokens.                                                  *)

IsTerminator(c) == IsMultispace(c) \/ is_delimiter(c)

RECURSIVE TokenLen(_, _)
\* The length of the token at the start of s: the bytes up to the first
\* whitespace or delimiter behind the first n bytes.
TokenLen(s, n) ==
    IF Len(s) <= n THEN Len(s)
    ELSE IF IsTerminator(s[n + 1]) THEN n
    ELSE TokenLen(s, n + 1)

TokenOf(s) == Take(s, TokenLen(s, 1))

\* C11: a boolean, a number, null or a name is accepted only when the byte
\* that follows the token is whitespace, a delimiter or the end of the
\* input: an accepted token reaches up to the first such byte, a keyword is
\* accepted only as the whole token (falsee is not false), the whitespace
\* behind the token is consumed and a delimiter behind it is left.
C11_TokenNeedsTermination ==
    (pc = "done" /\ result.r.ok) =>
        /\ result.r.rest = multispace0(Drop(input, Len(TokenOf(input))))
        /\ result.r.rest = <<>> \/ ~IsMultispace(Head(result.r.rest))
        /\ (Len(input) > Len(TokenOf(input))
              /\ is_delimiter(input[Len(TokenOf(input)) + 1]))
             => result.r.rest = Drop(input, Len(TokenOf(input)))
        /\ result.parser = "bool" => TokenOf(input) \in {TRUE_OBJECT, FALSE_OBJECT}
        /\ result.parser = "null" => TokenOf(input) = NULL_OBJECT
        /\ result.parser = "number" => \A i \in 1..Len(TokenOf(input)) :
                                          TokenOf(input)[i] \in {43, 45, 46} \cup 48..57

\* false before whitespace and a delimiter: accepted, the whitespace is
\* consumed and the delimiter is left.
C11_Witness ==
    /\ pc = "done"
    /\ result.parser = "bool"
    /\ input = FALSE_OBJECT \o <<SP, LP>>
    /\ result.r.ok
    /\ result.r.rest = <<LP>>

----------------------------------------------------------------------------
(* The cross-reference table.                                              *)

\* The entry that row k of a subsection stands for: object number first +
\* k - 1, an n row Used with its offset and generation, an f row Free with
\* the next free number and its generation.
EntryOfRow(sub, k) ==
    IF sub.rows[k].free
    THEN FreeObject(AddDigits(sub.first, k - 1), Canonical(sub.rows[k].gen),
                    Canonical(sub.rows[k].offset))
    ELSE UsedObject(AddDigits(sub.first, k - 1), Canonical(sub.rows[k].offset),
                    Canonical(sub.rows[k].gen))

\* The entries of the subsections in the order of the input.
EntriesOfRows(subs) ==
    Concat([j \in 1..Len(subs) |->
              [k \in 1..Len(subs[j].rows) |-> EntryOfRow(subs[j], k)]])

\* How often e occurs in the sequence es.
Occurrences(es, e) == Cardinality({i \in 1..Len(es) : es[i] = e})

\* C12: xref_section accepts "xref" and one or more subsections; the Xref
\* holds for each subsection "first count" its count entries, numbered from
\* first upwards in the order of the input, an n row as Used and an f row as
\* Free, every entry once, in non-decreasing order of the numbers, and its
\* kind is Table.
C12_TableEntries ==
    pc = "done" =>
        /\ result.ok
        /\ result.val.kind = "Table"
        /\ result.rest = KW_TRAILER
        /\ Len(result.val.entries) = Len(EntriesOfRows(input.subsections))
        /\ \A i \in 1..Len(result.val.entries) :
              Occurrences(result.val.entries, result.val.entries[i])
                = Occurrences(EntriesOfRows(input.subsections), result.val.entries[i])
        /\ \A i \in 1..(Len(result.val.entries) - 1) :
              NumLeq(result.val.entries[i].number, result.val.entries[i + 1].number)

----------------------------------------------------------------------------
(* The data of a cross-reference stream.                                   *)

\* The big-endian unsigned integer of a field.
BigEndian(bs) == StripZeroBytes(bs)

\* The entry that the record with the number index stands for.
EntryOfRecord(index, rec) ==
    IF BigEndian(rec[1]) = <<>>
    THEN FreeObject(index, BigEndian(rec[3]), BigEndian(rec[2]))
    ELSE IF BigEndian(rec[1]) = <<1>>
    THEN UsedObject(index, BigEndian(rec[2]), BigEndian(rec[3]))
    ELSE IF BigEndian(rec[1]) = <<2>>
    THEN UsedCompressedObject(index, BigEndian(rec[2]), BigEndian(rec[3]))
    ELSE Unsupported(index, BigEndian(rec[1]), BigEndian(rec[2]), BigEndian(rec[3]))

\* The payload cut into records of n bytes; what is left is no record.
RecordsOf(payload, w) ==
    [i \in 1..(Len(payload) \div (w[1] + w[2] + w[3])) |->
        LET rec == SubSeq(payload, (i - 1) * (w[1] + w[2] + w[3]) + 1,
                          i * (w[1] + w[2] + w[3]))
        IN  <<SubSeq(rec, 1, w[1]), SubSeq(rec, w[1] + 1, w[1] + w[2]),
              SubSeq(rec, w[1] + w[2] + 1, w[1] + w[2] + w[3])>>]

\* C13: xref_stream_data cuts the payload into records of w1 + w2 + w3
\* bytes, reads the three fields of a record as big-endian unsigned
\* integers, numbers the records from 0 in the order of the payload, maps
\* type 0 to Free, 1 to Used, 2 to UsedCompressed and any other type to
\* Unsupported with the three numbers kept, and yields as many entries as
\* the record length goes into the payload length.
C13_StreamDataEntries ==
    pc = "done" =>
        /\ result.ok
        /\ input.w[1] + input.w[2] + input.w[3] > 0
        /\ Len(result.val) = Len(PayloadOf(input)) \div (input.w[1] + input.w[2] + input.w[3])
        /\ \A i \in 1..Len(result.val) :
              result.val[i] = EntryOfRecord(i - 1, RecordsOf(PayloadOf(input), input.w)[i])

\* The entry /Size is a non-negative integer.
SizeValid(dict) ==
    /\ K_SIZE \in DOMAIN dict
    /\ dict[K_SIZE].t = "Integer"
    /\ dict[K_SIZE].int >= 0

\* The entries read before /Root are accepted: /Size is valid and /Prev is
\* not a negative integer.
ReadUpToRoot(dict) ==
    /\ SizeValid(dict)
    /\ ~(K_PREVIOUS \in DOMAIN dict /\ dict[K_PREVIOUS].t = "Integer"
            /\ dict[K_PREVIOUS].int < 0)

RootValid(dict) == K_ROOT \in DOMAIN dict /\ dict[K_ROOT].t = "Reference"

C15_InfoFromInfoKey ==
    pc = "done" =>
        LET r == result.r
        IN  /\ r.ok => r.val.info = DictGet(input, KEY_INFO)
            /\ (KEY_INFO \in DOMAIN input /\ input[KEY_INFO].t # "Reference") =>
                   ~r.ok /\ ((ReadUpToRoot(input) /\ RootValid(input)) =>
                                r.err = "InvalidInfo")

\* C16: object_stream on a stream with /N = n whose payload holds pairs
\* and objects returns n results in the order of the pairs, the i-th being
\* the number of the i-th pair with the object at /First plus its offset in
\* the payload the filter chain puts out; n = 0 gives the empty sequence.
C16_ObjectStreamPairs ==
    pc = "done" =>
        /\ result.ok
        /\ Len(result.val) = input.n
        /\ \A i \in 1..input.n :
              result.val[i] = <<input.members[i].number, input.members[i].object>>

\* Two objects laid out against the order of their pairs were read from a
\* payload stored in hexadecimal.
C16_Witness ==
    /\ pc = "done"
    /\ result.ok
    /\ input.n = 2
    /\ input.reversed
    /\ input.members[1] # input.members[2]
    /\ input.filter = "name"
    /\ Len(result.val) = 2

\* The names under /Filter of an input, a single name as a chain of one.
NamesOf(in) ==
    IF ~in.entry.some THEN <<>>
    ELSE IF in.entry.v.t = "Name" THEN <<in.entry.v.name>>
    ELSE [i \in 1..Len(in.entry.v.items) |-> in.entry.v.items[i].name]

\* C17: filtered_data applies the filters under /Filter in array order,
\* each to the output of the one before; without /Filter the result is the
\* raw payload, a single name is a chain of one, the first failing filter
\* ends the chain with its error, and the stored bytes stay as they were.
C17_FilterChain ==
    pc = "done" =>
        LET names == NamesOf(input)
            first == filter(names[1], input.data)
        IN  /\ encoded = StreamOfEntry(input)
            /\ names = <<>> => result = Good(input.data)
            /\ Len(names) = 1 => result = first
            /\ (Len(names) = 2 /\ ~first.ok) => result = first
            /\ (Len(names) = 2 /\ first.ok) => result = filter(names[2], first.val)

\* A chain of two filters, the first of which decoded the data and the
\* second of which failed on its output.
C17_Witness ==
    /\ pc = "done"
    /\ Len(NamesOf(input)) = 2
    /\ filter(NamesOf(input)[1], input.data).ok
    /\ filter(NamesOf(input)[1], input.data).val # <<>>
    /\ ~result.ok

\* The data before the first end mark, all of it when there is none.
BeforeEndMark(data) ==
    IF \E i \in 1..Len(data) : data[i] = GT
    THEN SubSeq(data, 1, (CHOOSE i \in 1..Len(data) :
                            data[i] = GT /\ \A k \in 1..(i - 1) : data[k] # GT) - 1)
    ELSE data

NotWhitespace(b) == ~IsAsciiWhitespace(b)

\* The bytes of a run of digits: one per pair, the last digit of an odd run
\* with a zero low nibble.
BytesOfDigits(ds) ==
    [i \in 1..((Len(ds) + 1) \div 2) |->
        16 * HexValue(ds[2 * i - 1])
            + (IF 2 * i <= Len(ds) THEN HexValue(ds[2 * i]) ELSE 0)]

\* C18: decode_ascii_hex skips whitespace, stops at the first end mark,
\* fails with InvalidData on a byte before it that is no digit, and
\* otherwise gives one byte per two digits in either case, a last single
\* digit with a zero low nibble, whether the data is closed by the end mark
\* or ends without it.
C18_DecodeAsciiHex ==
    pc = "done" =>
        LET read == SelectSeq(BeforeEndMark(input), NotWhitespace)
        IN  IF \E i \in 1..Len(read) : ~IsHexDigit(read[i])
            THEN result = Err("InvalidData")
            ELSE result = Good(BytesOfDigits(read))

\* The pattern stands at the start of s, letters compared as the parser
\* compares them.
PatternAt(p, s) ==
    /\ Len(s) >= Len(p.pat)
    /\ \A k \in 1..Len(p.pat) :
          IF p.kind = "tag" THEN s[k] = p.pat[k]
          ELSE ToLower(s[k]) = ToLower(p.pat[k])

\* The suffix of the input of length i.
Suffix(s, i) == SubSeq(s, Len(s) - i + 1, Len(s))

\* The lengths of the suffixes within the limit at whose start the pattern
\* stands.
Accepted(in) ==
    {i \in 1..Len(in.bytes) : i <= in.limit /\ PatternAt(in.parser, Suffix(in.bytes, i))}

\* C19: backward_search succeeds at the shortest suffix of length at most
\* min(L, limit) that the parser accepts, with the bytes before the suffix,
\* the remainder and the match of the parser; it fails with
\* BackwardSearchNotFound when there is no such suffix, as for an empty
\* input or the limit 0.  `Hello World!` with `World` is found with the
\* limit 6 and not with the limit 5.
C19_BackwardSearch ==
    pc = "done" =>
        /\ Accepted(input) = {} => result = Err("BackwardSearchNotFound")
        /\ Accepted(input) # {} =>
              LET i == CHOOSE a \in Accepted(input) : \A b \in Accepted(input) : a <= b
                  n == Len(input.parser.pat)
              IN  /\ result.ok
                  /\ result.rest = SubSeq(input.bytes, 1, Len(input.bytes) - i)
                  /\ result.val[2] = SubSeq(Suffix(input.bytes, i), 1, n)
                  /\ result.val[1] = SubSeq(Suffix(input.bytes, i), n + 1, i)
        /\ (input.bytes = HELLO_WORLD /\ input.limit = 6) =>
              result = Ok(<<(<<33>>), WORLD>>, <<72, 101, 108, 108, 111, 32>>)
        /\ (input.bytes = HELLO_WORLD /\ input.limit = 5) => ~result.ok

\* The pattern stands twice within the limit and the search has returned.
C19_Witness ==
    /\ pc = "done"
    /\ result.ok
    /\ \E a, b \in Accepted(input) : a # b

\* C20: startxref_tail returns the offset behind the last keyword,
\* whatever follows the digits, and fails with StartxrefInvalid when the
\* digits are missing or stand for a number that the offset type does not
\* hold.
C20_StartxrefTail ==
    pc = "done" =>
        LET r == result.r
        IN  IF input.digits = <<>> \/ ~FitsIn(input.digits, USIZE_MAX(result.width))
            THEN ~r.ok /\ r.err = "StartxrefInvalid"
            ELSE /\ r.ok
                 /\ r.val = Canonical(input.digits)
                 /\ r.rest = (IF input.older THEN OlderStartxref ELSE <<>>)

\* The bytes i..j of s hold parentheses in matched pairs only.
BalancedRange(s, i, j) ==
    /\ Cardinality({k \in i..j : s[k] = LP}) = Cardinality({k \in i..j : s[k] = RP})
    /\ \A m \in i..j :
          Cardinality({k \in i..m : s[k] = LP}) >= Cardinality({k \in i..m : s[k] = RP})

\* The parenthesis at i has no partner: a ')' that no earlier '(' opens, a
\* '(' that no later ')' closes.
UnmatchedAt(s, i) ==
    \/ s[i] = RP /\ ~\E o \in 1..(i - 1) : s[o] = LP /\ BalancedRange(s, o + 1, i - 1)
    \/ s[i] = LP /\ ~\E c \in (i + 1)..Len(s) : s[c] = RP /\ BalancedRange(s, i + 1, c - 1)

\* The literal with a backslash before each unmatched parenthesis.
EscapedLiteral(s) ==
    <<LP>> \o Concat([i \in 1..Len(s) |->
                        IF UnmatchedAt(s, i) THEN <<BSL, s[i]>> ELSE <<s[i]>>])
          \o <<RP>>

\* C21: the string encoder writes '(' content ')' with a backslash before
\* exactly the unmatched parentheses of the content, and string_object
\* consumes the bytes written entirely.
C21_StringEscapesUnmatched ==
    (pc = "done" /\ input.t = "String") =>
        /\ encoded = EscapedLiteral(input.str)
        /\ result.parsed.ok
        /\ result.parsed.rest = <<>>

\* The digits of the base 16 in lower case.
HexDigits == <<48, 49, 50, 51, 52, 53, 54, 55, 56, 57, 97, 98, 99, 100, 101, 102>>

\* A byte of a name as it is to be written: itself when it is regular, the
\* number sign and its two hexadecimal digits when it is a delimiter or
\* white space.
NameByteWritten(b) ==
    IF IsAsciiWhitespace(b) \/ is_delimiter(b)
    THEN <<HASH, HexDigits[(b \div 16) + 1], HexDigits[(b % 16) + 1]>>
    ELSE <<b>>

\* The bytes of a name after its first byte as they are to be written.
NameBytesWritten(n) == Concat([i \in 1..Len(n) |-> NameByteWritten(n[i])])

\* C22: the name encoder writes the solidus and then the bytes of the
\* name in order, a regular byte unchanged, any other byte as the number
\* sign and its two hexadecimal digits.
C22_NameWrittenWithSolidus ==
    (pc = "done" /\ input.t = "Name") =>
        encoded = <<SOL>> \o NameBytesWritten(input.name)

\* C29: for every string and every name encoded_len is the number of
\* bytes that write_to writes for the same value.
C29_EncodedLenIsWrittenLength ==
    pc = "done" => result.len = Len(encoded)

\* A string with an escaped parenthesis has been written.
C29_Witness ==
    /\ pc = "done"
    /\ input.t = "String"
    /\ Len(encoded) > Len(input.str) + 2
    /\ result.len = Len(encoded)

\* The keys of the written section from the least to the greatest.
RECURSIVE Ascending(_)
Ascending(keys) ==
    IF keys = {} THEN <<>>
    ELSE LET k == CHOOSE x \in keys : \A y \in keys : x <= y
         IN  <<k>> \o Ascending(keys \ {k})

\* The number that big-endian bytes stand for.
RECURSIVE NatOf(_)
NatOf(bs) == IF bs = <<>> THEN 0 ELSE NatOf(SubSeq(bs, 1, Len(bs) - 1)) * 256 + bs[Len(bs)]

\* The bytes of the i-th object of the section in the order of the numbers.
WrittenObject(i) == write_to(input.sec[Ascending(DOMAIN input.sec)[i]], input.ord)

\* The position behind the first i objects when they follow what the
\* writer held, one after the other.
RECURSIVE PositionBehind(_)
PositionBehind(i) ==
    IF i = 0 THEN Len(input.writer) ELSE PositionBehind(i - 1) + Len(WrittenObject(i))

\* startxref, a line feed, the decimal digits of n and a line feed.
StartxrefLines(n) == STARTXREF \o <<LF>> \o to_string(n) \o <<LF>>

\* What closes a written indirect stream object: a line feed and endstream,
\* the line feed behind the stream, endobj and its line feed, and the line
\* feed behind the indirect object.
StreamObjectEnd == <<LF>> \o KW_ENDSTREAM \o <<LF>> \o KW_ENDOBJ \o <<LF, LF>>

\* The bytes of the xref object: from start_xref up to the startxref lines.
XrefObjectBytes ==
    SubSeq(encoded, result.start_xref + 1,
           Len(encoded) - Len(StartxrefLines(result.start_xref)))

\* The payload of the xref object: a record of 1 + size + size bytes for
\* every object, in front of the end of the stream object.
XrefPayload ==
    SubSeq(XrefObjectBytes,
           Len(XrefObjectBytes) - Len(StreamObjectEnd)
               - Cardinality(DOMAIN input.sec) * (1 + 2 * input.size) + 1,
           Len(XrefObjectBytes) - Len(StreamObjectEnd))

\* C23: the objects of a section are written in increasing order of their
\* numbers, one after the other behind what the writer held; the entry of
\* an object has its number and, as byte_offset, the position at which the
\* first byte of the object is written; the xref follows the last object
\* as an indirect object of generation 0 that holds a stream, whose payload
\* has one record per object in the order of the numbers, with that
\* position in its second field; and the output ends with startxref and the
\* position of the first byte of the xref object.
C23_SectionOrderAndOffsets ==
    pc = "done" =>
        LET keys == Ascending(DOMAIN input.sec)
            n == Len(keys)
            lines == StartxrefLines(PositionBehind(n))
        IN  /\ Len(result.xref_entries) = n
            /\ \A i \in 1..n :
                  /\ result.xref_entries[i].type = "Used"
                  /\ result.xref_entries[i].number = keys[i]
                  /\ NatOf(result.xref_entries[i].byte_offset) = PositionBehind(i - 1)
                  /\ SubSeq(encoded, PositionBehind(i - 1) + 1, PositionBehind(i))
                         = WrittenObject(i)
            /\ Take(encoded, Len(input.writer)) = input.writer
            /\ result.start_xref = PositionBehind(n)
            /\ Len(encoded) > PositionBehind(n) + Len(lines)
            /\ Drop(encoded, Len(encoded) - Len(lines)) = lines
            /\ \E k \in 1..Len(XrefObjectBytes) :
                  /\ \A j \in 1..k : XrefObjectBytes[j] \in 48..57
                  /\ StartsWith(Drop(XrefObjectBytes, k),
                                <<SP, 48, SP>> \o KW_OBJ \o <<LF, LT, LT>>)
            /\ Drop(XrefObjectBytes, Len(XrefObjectBytes) - Len(StreamObjectEnd))
                   = StreamObjectEnd
            /\ Len(XrefPayload) = n * (1 + 2 * input.size)
            /\ \A i \in 1..n :
                  LET rec == RecordsOf(XrefPayload, <<1, input.size, input.size>>)[i]
                  IN  /\ NatOf(rec[2]) = PositionBehind(i - 1)
                      /\ NatOf(rec[3]) = 0

\* A section of several objects whose numbers leave a gap has been written
\* behind a header.
C23_Witness ==
    /\ pc = "done"
    /\ input.writer # <<>>
    /\ {1, 3} \subseteq DOMAIN input.sec
    /\ 2 \notin DOMAIN input.sec
    /\ Len(result.xref_entries) >= 2
    /\ NatOf(result.xref_entries[2].byte_offset) > Len(input.writer)
    /\ result.start_xref > NatOf(result.xref_entries[2].byte_offset)

\* The digits between the angle brackets of the input.
DigitsOfInput == SubSeq(input, 2, Len(input) - 1)

\* C25: n hexadecimal digits between angle brackets are decoded into
\* ceil(n/2) bytes, two digits per byte, and when n is odd the last byte is
\* 16 times the value of the last digit, whether that digit is 0-9, A-F or
\* a-f.
C25_HexStringOddDigit ==
    pc = "done" =>
        /\ result.ok
        /\ Len(result.val.hex) = (Len(DigitsOfInput) + 1) \div 2
        /\ \A i \in 1..(Len(DigitsOfInput) \div 2) :
              result.val.hex[i] = 16 * HexValue(DigitsOfInput[2 * i - 1])
                                      + HexValue(DigitsOfInput[2 * i])
        /\ Len(DigitsOfInput) % 2 = 1 =>
              result.val.hex[Len(result.val.hex)]
                  = 16 * HexValue(DigitsOfInput[Len(DigitsOfInput)])

\* A token that is an integer object: 1 or -1.
IntegerToken(tok) == tok \in {<<49>>, <<45, 49>>}

\* The shapes of /W that the statement names: missing, not an array, an
\* element that is not an integer (4294967296 is not representable as one),
\* not three elements, a negative element.
WAnomaly(w) ==
    \/ ~w.present
    \/ ~w.array
    \/ \E i \in 1..Len(w.toks) : ~IntegerToken(w.toks[i])
    \/ Len(w.toks) # 3
    \/ \E i \in 1..Len(w.toks) : w.toks[i] = <<45, 49>>

NonNegativeInteger(dict, key) ==
    /\ key \in DOMAIN dict
    /\ dict[key].t = "Integer"
    /\ dict[key].int >= 0

\* The entry /ID is an array of exactly two HexStrings.
IdValid(dict) ==
    /\ K_ID \in DOMAIN dict
    /\ dict[K_ID].t = "Array"
    /\ Len(dict[K_ID].items) = 2
    /\ \A i \in 1..2 : dict[K_ID].items[i].t = "HexString"

\* An optional key is well-formed when it is there.
OptionalValid(dict, key) ==
    key \in DOMAIN dict =>
        IF key = K_ID THEN IdValid(dict) ELSE NonNegativeInteger(dict, key)

\* The dictionary has no fault outside the entry under key: /Size and /Root
\* are valid, an info entry is a Reference, and the other optional keys are
\* absent or well-formed.
OnlyFault(dict, key) ==
    /\ SizeValid(dict)
    /\ RootValid(dict)
    /\ \A k \in {KEY_INFO, K_INFO} : k \in DOMAIN dict => dict[k].t = "Reference"
    /\ \A k \in {K_PREVIOUS, K_ID, K_X_REF_STM} \ {key} : OptionalValid(dict, k)

\* C27: an optional trailer key that is absent gives None, and one that is
\* present but malformed is never accepted and fails with the error of the
\* key: InvalidPrevious for a /Prev that is no non-negative integer (in both
\* projections, once /Size is accepted), and in Trailer::try_from InvalidId
\* for an /ID that is no array of exactly two HexStrings and InvalidXRefStm
\* for an /XRefStm that is no non-negative integer, when the dictionary has
\* no other fault.
C27_OptionalTrailerKeys ==
    pc = "done" =>
        LET r == result.r
        IN  /\ (K_PREVIOUS \in DOMAIN input /\ ~NonNegativeInteger(input, K_PREVIOUS)) =>
                   ~r.ok /\ (SizeValid(input) => r.err = "InvalidPrevious")
            /\ (K_PREVIOUS \notin DOMAIN input /\ r.ok) => r.val.previous = None
            /\ result.projection = "try_from" =>
                   /\ (K_ID \in DOMAIN input /\ ~IdValid(input)) =>
                          ~r.ok /\ (OnlyFault(input, K_ID) => r.err = "InvalidId")
                   /\ (K_ID \notin DOMAIN input /\ r.ok) => r.val.id = None
                   /\ (K_X_REF_STM \in DOMAIN input
                          /\ ~NonNegativeInteger(input, K_X_REF_STM)) =>
                          ~r.ok /\ (OnlyFault(input, K_X_REF_STM) =>
                                       r.err = "InvalidXRefStm")
                   /\ (K_X_REF_STM \notin DOMAIN input /\ r.ok) =>
                          r.val.x_ref_stm = None

\* C28: xref_stream_data on the payload the encoder makes for an Xref, with
\* the widths the encoder writes as /W, returns the entries of the Xref:
\* as many, in their order, each of the same kind (or the same type code)
\* with the same number and the same two field values.
C28_XrefStreamRoundTrip ==
    pc = "done" =>
        /\ result.decoded.ok
        /\ result.decoded.val = input.xref.entries

\* The text of the dictionary at the start of the input.
DictTextOfInput == CHOOSE d \in StreamDicts : StartsWith(input, d \o KW_STREAM)

\* What follows the keyword stream.
BehindStreamKeyword == Drop(input, Len(DictTextOfInput) + Len(KW_STREAM))

\* The length of the line terminator of stream: LF, or CR and LF.
StreamEolLen ==
    IF StartsWith(BehindStreamKeyword, <<CR, LF>>) THEN 2
    ELSE IF StartsWith(BehindStreamKeyword, <<LF>>) THEN 1
    ELSE 0

\* What follows the line terminator of stream.
StreamBody == Drop(BehindStreamKeyword, StreamEolLen)

\* The places of s at which endstream starts, counted from 0.
EndstreamPlaces(s) == {k \in 0..Len(s) : StartsWith(Drop(s, k), KW_ENDSTREAM)}

FirstEndstream(s) == CHOOSE k \in EndstreamPlaces(s) : \A j \in EndstreamPlaces(s) : k <= j

\* /Length of the dictionary of the input is an integer.
LengthIsInteger == \E n \in -1..MaxStreamLen : DictTextOfInput = LengthDict(n)

LengthOfInput == CHOOSE n \in -1..MaxStreamLen : DictTextOfInput = LengthDict(n)

\* The read of n bytes ends at endstream: the keyword follows the n bytes,
\* or the line terminator behind them.
LengthReadEndsAtEndstream(n) ==
    /\ n >= 0
    /\ n <= Len(StreamBody)
    /\ EndstreamKeywordAt(Drop(StreamBody, n))

\* C24: on a stream whose keyword stream has its line terminator and whose
\* body holds endstream, ended as a keyword is, when /Length is absent or no integer,
\* or when the read of /Length bytes does not end at endstream, the stream
\* parses and its payload is the bytes between the line terminator of
\* stream and the first endstream.
C24_StreamKeywordFallback ==
    (/\ pc = "done"
     /\ StreamEolLen > 0
     /\ EndstreamPlaces(StreamBody) # {}
     /\ EndstreamKeywordAt(Drop(StreamBody, FirstEndstream(StreamBody)))
     /\ (~LengthIsInteger \/ ~LengthReadEndsAtEndstream(LengthOfInput))) =>
        /\ result.ok
        /\ result.val.data = Take(StreamBody, FirstEndstream(StreamBody))

\* The dictionary of the stream with /Length set to the length of the
\* payload: every other entry as it is.
WithPayloadLength(s) ==
    [k \in (DOMAIN s.dictionary) \cup {K_LENGTH} |->
        IF k = K_LENGTH THEN [t |-> "Integer", int |-> Len(s.data)]
        ELSE s.dictionary[k]]

====
